---- MODULE Spec2Model ----
(***************************************************************************)
(* Plan compression (tools/validate-plan, tools/validate-plan-helpers) and *)
(* code chunking (tools/code-chunking) of the Itok MCP server.             *)
(*                                                                         *)
(* A plan is a record [phases, scopes, steps] of sequences.  A step keeps  *)
(* the fields the compressor reads or writes; title, summary and           *)
(* suggestedTools are text payload and are left out.  The field obj is the *)
(* identity of the JavaScript object that holds the step: i > 0 is the     *)
(* i-th step object of the caller's plan, 0 is an object created during    *)
(* the call ({...step, ...}).  An in-place assignment to a step with       *)
(* obj > 0 is an assignment to the caller's plan as well.                  *)
(***************************************************************************)
EXTENDS Integers, Sequences, FiniteSets, TLC

\* ---------------------------------------------------------------- bounds
MaxSteps == 3      \* steps of an input plan
MaxPhases == 3     \* phases of an input plan
MaxLimit == 2      \* largest value of targetMaxPhases, targetMaxSteps, maxMicroStepsPerPhase
MaxOrder == 2      \* largest order value of an input step
MaxFew == 2        \* steps (and phases) of an input plan that varies scopes, kinds and levels

\* ------------------------------------------------------- enums (types/index)
Abstract == 0
Planning == 1
Execution == 2
PlanLevel == {Abstract, Planning, Execution}

StepKind ==
  {"clarify_goal", "gather_context", "scan_code", "design_solution",
   "edit_code", "run_tests", "refine"}

ScopeKind == {"global", "module", "file", "symbol"}

\* scopeId: string | null
NULL == "<null>"

\* if (limit): an absent option (undefined) is modelled as 0, which is falsy as well
IsSet(limit) == limit # 0

\* ---------------------------------------------------------- sequence helpers
\* mutant: no dependency is redirected
MapDepsUnredirected(deps, redirect) == deps

\* Array.prototype.map
RECURSIVE MapDeps(_, _)
MapDeps(deps, redirect) ==
  IF deps = <<>> THEN <<>>
  ELSE <<IF Head(deps) \in DOMAIN redirect THEN redirect[Head(deps)] ELSE Head(deps)>>
         \o MapDeps(Tail(deps), redirect)

Range(s) == {s[i] : i \in DOMAIN s}

\* Array.from(new Set(xs)): first occurrences, in order
RECURSIVE Unique(_)
Unique(xs) ==
  IF xs = <<>> THEN <<>>
  ELSE LET init == Unique(SubSeq(xs, 1, Len(xs) - 1))
           last == xs[Len(xs)]
       IN IF last \in Range(init) THEN init ELSE Append(init, last)

\* xs.filter(x => !drop.has(x))
RECURSIVE Without(_, _)
Without(xs, drop) ==
  IF xs = <<>> THEN <<>>
  ELSE (IF Head(xs) \in drop THEN <<>> ELSE <<Head(xs)>>) \o Without(Tail(xs), drop)

\* steps.flatMap(s => s.dependencies)
RECURSIVE FlatDeps(_)
FlatDeps(steps) ==
  IF steps = <<>> THEN <<>> ELSE Head(steps).dependencies \o FlatDeps(Tail(steps))

\* Math.min(...steps.map(s => s.order))
RECURSIVE MinOrder(_)
MinOrder(steps) ==
  IF Len(steps) = 1 THEN steps[1].order
  ELSE LET m == MinOrder(Tail(steps))
       IN IF Head(steps).order <= m THEN Head(steps).order ELSE m

\* [...steps].sort((a, b) => a.order - b.order): stable
RECURSIVE InsertByOrder(_, _)
InsertByOrder(sorted, s) ==
  IF sorted = <<>> THEN <<s>>
  ELSE IF sorted[Len(sorted)].order <= s.order THEN Append(sorted, s)
  ELSE Append(InsertByOrder(SubSeq(sorted, 1, Len(sorted) - 1), s), sorted[Len(sorted)])

\* mutant: the sort is left out
SortByOrderSkipped(steps) == steps

RECURSIVE SortByOrder(_)
SortByOrder(steps) ==
  IF steps = <<>> THEN <<>>
  ELSE InsertByOrder(SortByOrder(SubSeq(steps, 1, Len(steps) - 1)), steps[Len(steps)])

StepIdsOf(steps) == {steps[i].id : i \in DOMAIN steps}
PhaseIdsOf(phases) == {phases[i].id : i \in DOMAIN phases}
ScopeIdsOf(scopes) == {scopes[i].id : i \in DOMAIN scopes}

\* ------------------------------------------------ validate-plan-helpers
\* mutant: the case of run_tests is missing and falls to the default
getExpectedLevelWithoutRunTests(kind, phaseLevel) ==
  CASE kind = "clarify_goal" -> Abstract
    [] kind \in {"gather_context", "scan_code", "design_solution"} -> Planning
    [] kind = "edit_code" -> Execution
    [] OTHER -> phaseLevel

getExpectedLevelForStepKind(kind, phaseLevel) ==
  CASE kind = "clarify_goal" -> Abstract
    [] kind \in {"gather_context", "scan_code", "design_solution"} -> Planning
    [] kind \in {"edit_code", "run_tests"} -> Execution
    [] kind = "refine" -> phaseLevel
    [] OTHER -> phaseLevel

\* mutant: a single step is rebuilt like a merged one ({...baseStep, ...})
mergeStepsAlwaysRebuilt(steps) ==
  [steps[1] EXCEPT !.dependencies = Unique(FlatDeps(steps)),
                   !.order = MinOrder(steps),
                   !.obj = 0]

\* mutant: the merged step keeps the order of its base step
mergeStepsKeepsBaseOrder(steps) ==
  IF Len(steps) = 1 THEN steps[1]
  ELSE [steps[1] EXCEPT !.dependencies = Unique(FlatDeps(steps)),
                        !.obj = 0]

\* Called with at least two steps by applyDynamicChunking; one step is returned as is.
mergeSteps(steps) ==
  IF Len(steps) = 1 THEN steps[1]
  ELSE [steps[1] EXCEPT !.dependencies = Unique(FlatDeps(steps)),
                        !.order = MinOrder(steps),
                        !.obj = 0]

\* ------------------------------------------------------- validatePlanLevels
\* plan.phases.find((p) => p.id === step.phaseId): index of the first match, 0 if none
FindPhase(phases, phaseId) ==
  IF \E i \in DOMAIN phases : phases[i].id = phaseId
  THEN CHOOSE i \in DOMAIN phases :
         /\ phases[i].id = phaseId
         /\ \A j \in 1..(i - 1) : phases[j].id # phaseId
  ELSE 0

LevelOf(plan, step) ==
  LET i == FindPhase(plan.phases, step.phaseId)
  IN IF i = 0 THEN step.level
     ELSE getExpectedLevelForStepKind(step.kind, plan.phases[i].level)

\* changes.push({type, componentId: step.id}) for each step of hit, the steps the map rewrites, in order
ChangesFor(hit, type) ==
  [i \in DOMAIN hit |-> [type |-> type, componentId |-> hit[i].id]]

validatePlanLevels(plan) ==
  LET Wrong(s) == LevelOf(plan, s) # s.level
      updatedSteps ==
        [i \in DOMAIN plan.steps |->
           LET s == plan.steps[i]
           IN IF Wrong(s) THEN [s EXCEPT !.level = LevelOf(plan, s), !.obj = 0] ELSE s]
  IN [plan |-> [plan EXCEPT !.steps = updatedSteps],
      changes |-> ChangesFor(SelectSeq(plan.steps, Wrong), "level_corrected")]

\* ------------------------------------------------------- validatePlanScopes
\* `scope-global-${Date.now()}`
NewGlobalScopeId == "scope-global-now"

FirstGlobal(scopes) ==
  IF \E i \in DOMAIN scopes : scopes[i].kind = "global"
  THEN CHOOSE i \in DOMAIN scopes :
         /\ scopes[i].kind = "global"
         /\ \A j \in 1..(i - 1) : scopes[j].kind # "global"
  ELSE 0

validatePlanScopes(plan) ==
  LET g == FirstGlobal(plan.scopes)
      updatedScopes ==
        IF g = 0 THEN Append(plan.scopes, [id |-> NewGlobalScopeId, kind |-> "global"])
        ELSE plan.scopes
      globalScopeId == IF g = 0 THEN NewGlobalScopeId ELSE plan.scopes[g].id
      validScopeIds == ScopeIdsOf(updatedScopes)
      Invalid(s) == s.scopeId # NULL /\ s.scopeId \notin validScopeIds
      updatedSteps ==
        [i \in DOMAIN plan.steps |->
           LET s == plan.steps[i]
           IN IF Invalid(s) THEN [s EXCEPT !.scopeId = globalScopeId, !.obj = 0] ELSE s]
  IN [plan |-> [plan EXCEPT !.scopes = updatedScopes, !.steps = updatedSteps],
      changes |->
        (IF g = 0 THEN <<[type |-> "scope_created", componentId |-> NewGlobalScopeId]>>
         ELSE <<>>) \o ChangesFor(SelectSeq(plan.steps, Invalid), "scope_reassigned")]

\* ----------------------------------------------------- applyDynamicChunking
\* `${step.phaseId}|${step.scopeId || "null"}|${step.kind}`
GroupKey(s) == <<s.phaseId, IF s.scopeId \in {NULL, ""} THEN "null" ELSE s.scopeId, s.kind>>

GroupKeys(plan) ==
  LET el == SelectSeq(plan.steps, LAMBDA s : s.level = Execution)
  IN Unique([i \in DOMAIN el |-> GroupKey(el[i])])

GroupSteps(plan, key) ==
  SelectSeq(plan.steps, LAMBDA s : s.level = Execution /\ GroupKey(s) = key)

\* groupSteps.forEach: push the step unless its id was processed, then mark it processed
RECURSIVE PushUnprocessed(_, _)
PushUnprocessed(group, processed) ==
  IF group = <<>> THEN <<>>
  ELSE IF Head(group).id \in processed THEN PushUnprocessed(Tail(group), processed)
  ELSE <<Head(group)>> \o PushUnprocessed(Tail(group), processed \cup {Head(group).id})

\* groups.forEach of lines 221-248; acc = [mergedSteps, processed, remove, changes]
RECURSIVE MergeGroups(_, _, _, _)
MergeGroups(plan, keys, maxMicroStepsPerPhase, acc) ==
  IF keys = <<>> THEN acc
  ELSE
    LET g == GroupSteps(plan, Head(keys))
        mergedStep == mergeSteps(g)
        next ==
          IF Len(g) <= maxMicroStepsPerPhase
          THEN [acc EXCEPT !.mergedSteps = @ \o PushUnprocessed(g, acc.processed),
                           !.processed = @ \cup StepIdsOf(g)]
          ELSE [mergedSteps |-> Append(acc.mergedSteps, mergedStep),
                processed |-> acc.processed \cup StepIdsOf(g),
                remove |-> acc.remove \cup (StepIdsOf(g) \ {mergedStep.id}),
                changes |-> Append(acc.changes,
                                   [type |-> "steps_merged", componentId |-> mergedStep.id])]
    IN MergeGroups(plan, Tail(keys), maxMicroStepsPerPhase, next)

\* mergedStepIds (oldId -> mergedId) of lines 258-270; a later set() replaces an earlier one
RECURSIVE MergedStepIds(_, _, _, _)
MergedStepIds(plan, keys, maxMicroStepsPerPhase, mergedSteps) ==
  IF keys = <<>> THEN <<>>
  ELSE
    LET g == GroupSteps(plan, keys[Len(keys)])
        init == MergedStepIds(plan, SubSeq(keys, 1, Len(keys) - 1),
                              maxMicroStepsPerPhase, mergedSteps)
    IN IF Len(g) > maxMicroStepsPerPhase /\ g[1].id \in StepIdsOf(mergedSteps)
       THEN [id \in StepIdsOf(g) \ {g[1].id} |-> g[1].id] @@ init
       ELSE init

applyDynamicChunking(plan, maxMicroStepsPerPhase) ==
  IF ~IsSet(maxMicroStepsPerPhase) THEN [plan |-> plan, changes |-> <<>>]
  ELSE
    LET keys == GroupKeys(plan)
        acc == MergeGroups(plan, keys, maxMicroStepsPerPhase,
                           [mergedSteps |-> <<>>, processed |-> {}, remove |-> {},
                            changes |-> <<>>])
        mergedSteps ==
          acc.mergedSteps \o SelectSeq(plan.steps, LAMBDA s : s.id \notin acc.processed)
        mergedStepIds == MergedStepIds(plan, keys, maxMicroStepsPerPhase, mergedSteps)
        finalSteps ==
          [i \in DOMAIN mergedSteps |->
             LET step == mergedSteps[i]
             IN [step EXCEPT
                   !.dependencies =
                     Without(Unique(MapDeps(step.dependencies, mergedStepIds)), {step.id}),
                   !.obj = 0]]
    IN [plan |-> [plan EXCEPT !.steps =
                    SelectSeq(finalSteps, LAMBDA s : s.id \notin acc.remove)],
        changes |-> acc.changes]

\* -------------------------------------------------------- applyGlobalLimits
\* stepsByPhase.forEach of lines 344-362; acc = [finalSteps, totalRemoved]
RECURSIVE LimitPhases(_, _, _, _)
LimitPhases(steps, phaseIds, targetMaxSteps, acc) ==
  IF phaseIds = <<>> THEN acc
  ELSE
    LET phaseSteps == SelectSeq(steps, LAMBDA s : s.phaseId = Head(phaseIds))
        sortedSteps == SortByOrder(phaseSteps)
        keptSteps == SubSeq(sortedSteps, 1, targetMaxSteps)
        removedSteps == SubSeq(sortedSteps, targetMaxSteps + 1, Len(sortedSteps))
        \* step.dependencies = ... assigns to the kept objects themselves (obj unchanged)
        keptStripped ==
          [i \in DOMAIN keptSteps |->
             [keptSteps[i] EXCEPT
                !.dependencies = Without(@, StepIdsOf(removedSteps))]]
        next ==
          IF Len(phaseSteps) > targetMaxSteps
          THEN [finalSteps |-> acc.finalSteps \o keptStripped,
                totalRemoved |-> acc.totalRemoved + Len(removedSteps),
                assigned |-> acc.assigned \o keptStripped]
          ELSE [acc EXCEPT !.finalSteps = @ \o phaseSteps]
    IN LimitPhases(steps, Tail(phaseIds), targetMaxSteps, next)

\* mutant: the last targetMaxPhases phases are kept (slice(-targetMaxPhases))
TruncatePhasesFromEnd(phases, targetMaxPhases) ==
  SubSeq(phases, Len(phases) - targetMaxPhases + 1, Len(phases))

\* updatedPhases.slice(0, targetMaxPhases)
TruncatePhases(phases, targetMaxPhases) == SubSeq(phases, 1, targetMaxPhases)

\* The result carries, besides plan and changes, the steps whose dependencies were
\* assigned in place (assigned), so that the caller's objects can follow.
applyGlobalLimits(plan, targetMaxPhases, targetMaxSteps) ==
  LET cutPhases == IsSet(targetMaxPhases) /\ Len(plan.phases) > targetMaxPhases
      updatedPhases ==
        IF cutPhases THEN TruncatePhases(plan.phases, targetMaxPhases) ELSE plan.phases
      phaseSteps ==
        IF cutPhases
        THEN SelectSeq(plan.steps, LAMBDA s : s.phaseId \in PhaseIdsOf(updatedPhases))
        ELSE plan.steps
      phaseChanges ==
        IF cutPhases THEN <<[type |-> "phases_truncated", componentId |-> ""]>> ELSE <<>>
      lim == LimitPhases(phaseSteps,
                         Unique([i \in DOMAIN phaseSteps |-> phaseSteps[i].phaseId]),
                         targetMaxSteps,
                         [finalSteps |-> <<>>, totalRemoved |-> 0, assigned |-> <<>>])
      keepFirst == lim.finalSteps = <<>> /\ phaseSteps # <<>>
      finalSteps == IF keepFirst THEN <<phaseSteps[1]>> ELSE lim.finalSteps
      totalRemoved == IF keepFirst THEN Len(phaseSteps) - 1 ELSE lim.totalRemoved
      stepChanges ==
        IF totalRemoved > 0
        THEN <<[type |-> "steps_truncated", componentId |-> ""]>> ELSE <<>>
  IN IF IsSet(targetMaxSteps)
     THEN [plan |-> [plan EXCEPT !.phases = updatedPhases, !.steps = finalSteps],
           changes |-> phaseChanges \o stepChanges,
           assigned |-> lim.assigned]
     ELSE [plan |-> [plan EXCEPT !.phases = updatedPhases, !.steps = phaseSteps],
           changes |-> phaseChanges,
           assigned |-> <<>>]

\* ------------------------------------------------ taskPlanSchema (types/schemas)
\* The three refinements and the two min(1) checks; the per-field checks (non-empty
\* strings, enum members, order >= 0) hold of every plan of this model.
\* mutant: the refinement on dependencies is missing
taskPlanSchemaWithoutDependencies(plan) ==
  /\ Len(plan.phases) >= 1
  /\ Len(plan.steps) >= 1
  /\ \A i \in DOMAIN plan.steps :
       /\ plan.steps[i].phaseId \in PhaseIdsOf(plan.phases)
       /\ plan.steps[i].scopeId = NULL \/ plan.steps[i].scopeId \in ScopeIdsOf(plan.scopes)

taskPlanSchemaOk(plan) ==
  /\ Len(plan.phases) >= 1
  /\ Len(plan.steps) >= 1
  /\ \A i \in DOMAIN plan.steps :
       /\ plan.steps[i].phaseId \in PhaseIdsOf(plan.phases)
       /\ plan.steps[i].scopeId = NULL \/ plan.steps[i].scopeId \in ScopeIdsOf(plan.scopes)
       /\ Range(plan.steps[i].dependencies) \subseteq StepIdsOf(plan.steps)

\* ------------------------------------------------------------ code-chunking
\* DEFAULT_OPTIONS
DefaultMaxChunksPerStep == 5
DefaultMaxLinesPerChunk == 100

\* options?.x ?? DEFAULT_OPTIONS.x: options is a record that may lack either field
mergeOptions(o) ==
  [maxChunksPerStep |->
     IF "maxChunksPerStep" \in DOMAIN o THEN o.maxChunksPerStep ELSE DefaultMaxChunksPerStep,
   maxLinesPerChunk |->
     IF "maxLinesPerChunk" \in DOMAIN o THEN o.maxLinesPerChunk ELSE DefaultMaxLinesPerChunk,
   applyDechunking |->
     IF "applyDechunking" \in DOMAIN o THEN o.applyDechunking ELSE TRUE]

\* A chunk keeps id, filePath, startLine, endLine, type and, of its metadata, lineCount
\* and mergedFrom (empty when absent).  generateChunkId is not part of the sources at
\* hand: a generated id is modelled by the prefix it is generated from.
Chunk(id, filePath, startLine, endLine, type, lineCount, mergedFrom) ==
  [id |-> id, filePath |-> filePath, startLine |-> startLine, endLine |-> endLine,
   type |-> type, lineCount |-> lineCount, mergedFrom |-> mergedFrom]

Min(a, b) == IF a <= b THEN a ELSE b

\* mutant: a window ends one line later (currentStart + maxLinesPerChunk)
RECURSIVE RangeWindowsLong(_, _, _)
RangeWindowsLong(currentStart, endLine, maxLinesPerChunk) ==
  IF currentStart > endLine THEN <<>>
  ELSE LET currentEnd == Min(currentStart + maxLinesPerChunk, endLine)
       IN <<<<currentStart, currentEnd>>>>
          \o RangeWindowsLong(currentEnd + 1, endLine, maxLinesPerChunk)

\* the while loop of chunkByFileRange (lines 223-243): the spans it pushes
RECURSIVE RangeWindows(_, _, _)
RangeWindows(currentStart, endLine, maxLinesPerChunk) ==
  IF currentStart > endLine THEN <<>>
  ELSE LET currentEnd == Min(currentStart + maxLinesPerChunk - 1, endLine)
       IN <<<<currentStart, currentEnd>>>>
          \o RangeWindows(currentEnd + 1, endLine, maxLinesPerChunk)

chunkByFileRange(filePath, startLine, endLine, options) ==
  LET opts == mergeOptions(options)
      lineCount == endLine - startLine + 1
      windows == RangeWindows(startLine, endLine, opts.maxLinesPerChunk)
  IN IF lineCount <= opts.maxLinesPerChunk
     THEN <<Chunk("file", filePath, startLine, endLine, "file_range", lineCount, <<>>)>>
     ELSE [i \in DOMAIN windows |->
             Chunk("file", filePath, windows[i][1], windows[i][2], "file_range",
                   windows[i][2] - windows[i][1] + 1, <<>>)]

\* fileChunks.sort((a, b) => a.startLine - b.startLine): stable
RECURSIVE InsertByStart(_, _)
InsertByStart(sorted, c) ==
  IF sorted = <<>> THEN <<c>>
  ELSE IF sorted[Len(sorted)].startLine <= c.startLine THEN Append(sorted, c)
  ELSE Append(InsertByStart(SubSeq(sorted, 1, Len(sorted) - 1), c), sorted[Len(sorted)])

RECURSIVE SortByStart(_)
SortByStart(cs) ==
  IF cs = <<>> THEN <<>>
  ELSE InsertByStart(SortByStart(SubSeq(cs, 1, Len(cs) - 1)), cs[Len(cs)])

\* the summary chunk pushed for chunksToMerge (lines 310-332)
SummaryChunk(filePath, chunksToMerge) ==
  LET firstChunk == chunksToMerge[1]
      lastChunk == chunksToMerge[Len(chunksToMerge)]
  IN Chunk("merged", filePath, firstChunk.startLine, lastChunk.endLine, "summary",
           lastChunk.endLine - firstChunk.startLine + 1,
           [i \in DOMAIN chunksToMerge |-> chunksToMerge[i].id])

\* mutant: a batch of one chunk is dropped
RECURSIVE MergeFileChunksDroppingSingles(_, _, _)
MergeFileChunksDroppingSingles(filePath, fileChunks, maxChunksPerStep) ==
  IF fileChunks = <<>> THEN <<>>
  ELSE
    LET chunksToMerge == SubSeq(fileChunks, 1, Min(maxChunksPerStep, Len(fileChunks)))
    IN IF Len(chunksToMerge) = 1
       THEN MergeFileChunksDroppingSingles(filePath, Tail(fileChunks), maxChunksPerStep)
       ELSE <<SummaryChunk(filePath, chunksToMerge)>>
            \o MergeFileChunksDroppingSingles(
                 filePath, SubSeq(fileChunks, Len(chunksToMerge) + 1, Len(fileChunks)),
                 maxChunksPerStep)

\* the while loop over one file's sorted chunks (lines 290-339)
RECURSIVE MergeFileChunks(_, _, _)
MergeFileChunks(filePath, fileChunks, maxChunksPerStep) ==
  IF fileChunks = <<>> THEN <<>>
  ELSE
    LET chunksToMerge == SubSeq(fileChunks, 1, Min(maxChunksPerStep, Len(fileChunks)))
    IN IF Len(chunksToMerge) = 1
       THEN <<chunksToMerge[1]>>
            \o MergeFileChunks(filePath, Tail(fileChunks), maxChunksPerStep)
       ELSE <<SummaryChunk(filePath, chunksToMerge)>>
            \o MergeFileChunks(filePath,
                               SubSeq(fileChunks, Len(chunksToMerge) + 1, Len(fileChunks)),
                               maxChunksPerStep)

\* for (const [filePath, fileChunks] of byFile.entries())
RECURSIVE MergeFiles(_, _, _)
MergeFiles(chunkList, filePaths, maxChunksPerStep) ==
  IF filePaths = <<>> THEN <<>>
  ELSE MergeFileChunks(Head(filePaths),
                       SortByStart(SelectSeq(chunkList,
                                             LAMBDA c : c.filePath = Head(filePaths))),
                       maxChunksPerStep)
       \o MergeFiles(chunkList, Tail(filePaths), maxChunksPerStep)

\* options.maxChunksPerStep >= 1; one warning is pushed per summary chunk
applyDechunking(chunkList, opts) ==
  IF Len(chunkList) <= opts.maxChunksPerStep
  THEN [chunks |-> chunkList, warnings |-> 0]
  ELSE LET merged == MergeFiles(chunkList,
                                Unique([i \in DOMAIN chunkList |-> chunkList[i].filePath]),
                                opts.maxChunksPerStep)
       IN [chunks |-> merged,
           warnings |-> Cardinality({i \in DOMAIN merged : merged[i].type = "summary"})]

\* ------------------------------------------------------------ scope-resolver
\* The selectors of the model and what scope.selector.toLowerCase().trim() makes of them.
Selectors ==
  {"workspace root", " Workspace Root", "use serena.find_symbol('Login')",
   "module related to: auth", "files in src/auth/", "Login", "()"}

Normalized(selector) ==
  CASE selector = " Workspace Root" -> "workspace root"
    [] selector = "use serena.find_symbol('Login')" -> "use serena.find_symbol('login')"
    [] selector = "Login" -> "login"
    [] OTHER -> selector

\* selector.match(/use\s+serena\.(\w+)\(['"]([^'"]+)['"]\)/): group 2, NULL without match
SerenaActionMatch(selector) ==
  IF selector = "use serena.find_symbol('login')" THEN "login" ELSE NULL

\* selector.match(/module\s+related\s+to:\s*(.+)/)
ModuleMatch(selector) == selector = "module related to: auth"

\* selector.match(/(?:files?\s+in\s+)?([\w/.*-]+(?:\*\*?)?[\w/.*-]*)/): group 1, NULL
\* without match.  The pattern is not anchored: any selector with a word character
\* matches, and the optional prefix is only skipped when the match starts at it.
FilePatternMatch(selector) ==
  CASE selector = "workspace root" -> "workspace"
    [] selector = "use serena.find_symbol('login')" -> "use"
    [] selector = "module related to: auth" -> "module"
    [] selector = "files in src/auth/" -> "src/auth/"
    [] selector = "login" -> "login"
    [] OTHER -> NULL

\* selector.match(/^[a-zA-Z][a-zA-Z0-9]*$/)
SymbolNameMatch(selector) == selector = "login"

Resolution(type, symbolName, pathPattern) ==
  [resolutionType |-> type, symbolName |-> symbolName, pathPattern |-> pathPattern]

translateScopeSelector(scope) ==
  LET selector == Normalized(scope.selector)
  IN IF selector = "workspace root" \/ scope.kind = "global"
       THEN Resolution("global", NULL, NULL)
     ELSE IF SerenaActionMatch(selector) # NULL
       THEN Resolution("serena_action", SerenaActionMatch(selector), NULL)
     ELSE IF ModuleMatch(selector) \/ scope.kind = "module"
       THEN Resolution("module", NULL, NULL)
     ELSE IF FilePatternMatch(selector) # NULL \/ scope.kind = "file"
       THEN Resolution("pattern", NULL,
                       IF FilePatternMatch(selector) # NULL THEN FilePatternMatch(selector)
                       ELSE scope.selector)
     ELSE IF SymbolNameMatch(selector) \/ scope.kind = "symbol"
       THEN Resolution("symbol", scope.selector, NULL)
     ELSE Resolution("module", NULL, NULL)

\* mutant: the first scope of the plan is taken whatever its id
getStepScopeFirst(step, plan) ==
  IF step.scopeId = NULL \/ plan.scopes = <<>> THEN 0 ELSE 1

\* plan.scopes.find((s) => s.id === step.scopeId) || null: index of the scope, 0 for null
getStepScope(step, plan) ==
  IF step.scopeId = NULL THEN 0
  ELSE IF \E i \in DOMAIN plan.scopes : plan.scopes[i].id = step.scopeId
  THEN CHOOSE i \in DOMAIN plan.scopes :
         /\ plan.scopes[i].id = step.scopeId
         /\ \A j \in 1..(i - 1) : plan.scopes[j].id # step.scopeId
  ELSE 0

\* --------------------------------------------- code-chunking: the entry points
\* the line ranges the placeholders use until the symbol index is integrated
PlaceholderSymbolEnd == 50
PlaceholderFileEnd == 100

Stats(totalChunks, chunksMerged, totalLines) ==
  [totalChunks |-> totalChunks, chunksMerged |-> chunksMerged, totalLines |-> totalLines,
   estimatedTokens |-> 0]

RECURSIVE SumLineCount(_)
SumLineCount(cs) ==
  IF cs = <<>> THEN 0 ELSE Head(cs).lineCount + SumLineCount(Tail(cs))

\* A result keeps chunks, stats and the number of warnings.
chunkBySymbol(scope, options) ==
  LET opts == mergeOptions(options)
      found == scope.symbolName \notin {NULL, ""}
      cs == IF found
            THEN <<Chunk("symbol", "unknown.ts", 1, PlaceholderSymbolEnd, "symbol",
                         PlaceholderSymbolEnd, <<>>)>>
            ELSE <<>>
      dechunk == opts.applyDechunking /\ Len(cs) > opts.maxChunksPerStep
      dechunkResult == applyDechunking(cs, opts)
      finalChunks == IF dechunk THEN dechunkResult.chunks ELSE cs
  IN [chunks |-> finalChunks,
      stats |-> Stats(Len(finalChunks), Len(cs) - Len(finalChunks), SumLineCount(finalChunks)),
      warnings |-> (IF found THEN 0 ELSE 1) + (IF dechunk THEN dechunkResult.warnings ELSE 0)]

EmptyResult == [chunks |-> <<>>, stats |-> Stats(0, 0, 0), warnings |-> 1]

chunkScope(scope, plan, options) ==
  LET scopeResolution == translateScopeSelector(scope)
      filePath == IF scopeResolution.pathPattern \in {NULL, ""} THEN "unknown.ts"
                  ELSE scopeResolution.pathPattern
  IN CASE scopeResolution.resolutionType \in {"symbol", "serena_action"} ->
            chunkBySymbol(scopeResolution, options)
       [] scopeResolution.resolutionType \in {"pattern", "file"} ->
            [chunks |-> chunkByFileRange(filePath, 1, PlaceholderFileEnd, options),
             stats |-> Stats(1, 0, PlaceholderFileEnd),
             warnings |-> 1]
       [] OTHER -> EmptyResult

getChunksForStep(step, plan, options) ==
  LET scope == getStepScope(step, plan)
  IN IF scope = 0 THEN EmptyResult ELSE chunkScope(plan.scopes[scope], plan, options)

\* --------------------------------------------------------------- validatePlan
\* The caller's step objects after step.dependencies = ... on the steps of assigned
AssignDependencies(steps, assigned) ==
  [i \in DOMAIN steps |->
     IF \E k \in DOMAIN assigned : assigned[k].obj = i
     THEN [steps[i] EXCEPT !.dependencies =
             assigned[CHOOSE k \in DOMAIN assigned : assigned[k].obj = i].dependencies]
     ELSE steps[i]]

\* taskPlanSchema.parse returns a copy of what it accepts
ParsedCopy(p) ==
  [p EXCEPT !.steps = [i \in DOMAIN p.steps |-> [p.steps[i] EXCEPT !.obj = 0]]]

\* mutant: step 5 is left out
ensureStepRemainsSkipped(limited, inputSteps) ==
  [plan |-> limited, warnings |-> <<>>, inputSteps |-> inputSteps]

\* mutant: the preserved step keeps its phaseId
ensureStepRemainsKeepsPhase(limited, inputSteps) ==
  IF Len(limited.steps) = 0 /\ Len(inputSteps) > 0 /\ Len(limited.phases) > 0
  THEN [plan |-> [limited EXCEPT !.steps = <<inputSteps[1]>>],
        warnings |-> <<[type |-> "steps_preserved", componentId |-> inputSteps[1].id]>>,
        inputSteps |-> inputSteps]
  ELSE [plan |-> limited, warnings |-> <<>>, inputSteps |-> inputSteps]

\* Step 5 of validatePlan: ensure at least one step remains.  planBefore = {...plan}
\* shares the caller's steps array, so firstStep is the caller's first step object
\* (inputSteps[1]) and firstStep.phaseId = ... assigns to it.
ensureStepRemains(limited, inputSteps) ==
  LET firstPhase == FindPhase(limited.phases, inputSteps[1].phaseId)
      preserve ==
        /\ Len(limited.steps) = 0
        /\ Len(inputSteps) > 0
        /\ (firstPhase # 0 \/ Len(limited.phases) > 0)
      firstStep ==
        IF firstPhase = 0
        THEN [inputSteps[1] EXCEPT !.phaseId = limited.phases[1].id]
        ELSE inputSteps[1]
  IN IF preserve
     THEN [plan |-> [limited EXCEPT !.steps = <<firstStep>>],
           warnings |-> <<[type |-> "steps_preserved", componentId |-> firstStep.id]>>,
           inputSteps |-> [inputSteps EXCEPT ![1] = firstStep]]
     ELSE [plan |-> limited, warnings |-> <<>>, inputSteps |-> inputSteps]

\* The locals of validatePlan when it returns, and the caller's plan object (input)
\* as the call leaves it.
validatePlan(p, opts) ==
  LET levelResult == validatePlanLevels(p)
      scopeResult == validatePlanScopes(levelResult.plan)
      chunkingResult == applyDynamicChunking(scopeResult.plan, opts.maxMicroStepsPerPhase)
      limitsResult == applyGlobalLimits(chunkingResult.plan, opts.targetMaxPhases,
                                        opts.targetMaxSteps)
      limited == limitsResult.plan
      ensured == ensureStepRemains(limited,
                                   AssignDependencies(p.steps, limitsResult.assigned))
      valid == taskPlanSchemaOk(ensured.plan)
  IN [plan |-> IF valid THEN ParsedCopy(ensured.plan) ELSE ensured.plan,
      warnings |->
        ensured.warnings
        \o (IF valid THEN <<>> ELSE <<[type |-> "validation_error", componentId |-> ""]>>),
      changes |-> levelResult.changes \o scopeResult.changes \o chunkingResult.changes
                    \o limitsResult.changes,
      levelResult |-> levelResult,
      scopeResult |-> scopeResult,
      chunkingResult |-> chunkingResult,
      limitsResult |-> [plan |-> limitsResult.plan, changes |-> limitsResult.changes],
      input |-> [p EXCEPT !.steps = ensured.inputSteps]]

\* ------------------------------------------------------- execute-plan-helpers
\* status?: StepStatus; NULL is a step without status
StepStatus == {"todo", "in_progress", "done", "blocked"}

\* new Map(plan.steps.map((s) => [s.id, s])).get(depId): the last step with that id, 0 if none
LastWithId(steps, id) ==
  IF \E i \in DOMAIN steps : steps[i].id = id
  THEN CHOOSE i \in DOMAIN steps :
         /\ steps[i].id = id
         /\ \A j \in (i + 1)..Len(steps) : steps[j].id # id
  ELSE 0

\* mutant: a dependency only has to be a step of the plan
isStepExecutableWithPendingDependencies(step, plan) ==
  /\ step.status \notin {"in_progress", "done"}
  /\ step.status # "blocked"
  /\ \A k \in DOMAIN step.dependencies :
       LastWithId(plan.steps, step.dependencies[k]) # 0

isStepExecutable(step, plan) ==
  /\ step.status \notin {"in_progress", "done"}
  /\ step.status # "blocked"
  /\ \A k \in DOMAIN step.dependencies :
       LET dep == LastWithId(plan.steps, step.dependencies[k])
       IN dep # 0 /\ plan.steps[dep].status = "done"

\* mutant: the phases are not compared
CompareStepsByOrderOnly(a, b, plan) == a.order - b.order

\* the comparator of getExecutableSteps: phase order, then step order; 0 when a phase
\* is missing
CompareSteps(a, b, plan) ==
  LET phaseA == FindPhase(plan.phases, a.phaseId)
      phaseB == FindPhase(plan.phases, b.phaseId)
  IN IF phaseA = 0 \/ phaseB = 0 THEN 0
     ELSE IF plan.phases[phaseA].order # plan.phases[phaseB].order
       THEN plan.phases[phaseA].order - plan.phases[phaseB].order
     ELSE a.order - b.order

\* executableSteps.sort(...): stable
RECURSIVE InsertExecutable(_, _, _)
InsertExecutable(sorted, s, plan) ==
  IF sorted = <<>> THEN <<s>>
  ELSE IF CompareSteps(sorted[Len(sorted)], s, plan) <= 0 THEN Append(sorted, s)
  ELSE Append(InsertExecutable(SubSeq(sorted, 1, Len(sorted) - 1), s, plan),
              sorted[Len(sorted)])

RECURSIVE SortExecutable(_, _)
SortExecutable(steps, plan) ==
  IF steps = <<>> THEN <<>>
  ELSE InsertExecutable(SortExecutable(SubSeq(steps, 1, Len(steps) - 1), plan),
                        steps[Len(steps)], plan)

getExecutableSteps(plan) ==
  SortExecutable(SelectSeq(plan.steps, LAMBDA s : isStepExecutable(s, plan)), plan)

\* the next executable step, <<>> for null
getNextExecutableStep(plan) ==
  LET executableSteps == getExecutableSteps(plan)
  IN IF Len(executableSteps) > 0 THEN <<executableSteps[1]>> ELSE <<>>

\* plan.steps.findIndex((s) => s.id === stepId), 0 for -1
FindStep(steps, stepId) ==
  IF \E i \in DOMAIN steps : steps[i].id = stepId
  THEN CHOOSE i \in DOMAIN steps :
         /\ steps[i].id = stepId
         /\ \A j \in 1..(i - 1) : steps[j].id # stepId
  ELSE 0

\* [raised, plan]: raised when the step is missing or validateTaskPlan rejects the plan
updateStepStatus(plan, stepId, status) ==
  LET stepIndex == FindStep(plan.steps, stepId)
      updatedPlan ==
        [plan EXCEPT !.steps = [@ EXCEPT ![stepIndex] = [@ EXCEPT !.status = status,
                                                                  !.obj = 0]]]
  IN IF stepIndex = 0 \/ ~taskPlanSchemaOk(updatedPlan)
     THEN [raised |-> TRUE, plan |-> plan]
     ELSE [raised |-> FALSE, plan |-> ParsedCopy(updatedPlan)]

markStepInProgress(plan, stepId) == updateStepStatus(plan, stepId, "in_progress")
\* mutant: the step is left as it is
markStepDoneSkipped(plan, stepId) == [raised |-> FALSE, plan |-> plan]

markStepDone(plan, stepId) == updateStepStatus(plan, stepId, "done")

\* the reason is not stored
markStepBlocked(plan, stepId, reason) == updateStepStatus(plan, stepId, "blocked")

\* --------------------------------------------------------------- execute-step
\* What a call leaves: whether it raised, the step it chose (<<>> if none), the plan
\* after markStepInProgress (marked) and the plan it returns (updatedPlan).
Raised(plan, chosen) ==
  [raised |-> TRUE, step |-> chosen, marked |-> plan, updatedPlan |-> plan,
   success |-> FALSE, nextSteps |-> <<>>]

\* getPlanProgress(plan).done
DoneCount(plan) == Cardinality({i \in DOMAIN plan.steps : plan.steps[i].status = "done"})

\* the nextSteps of the result (lines 140-152); a next step is named by its id
NextStepsOf(updatedPlan) ==
  LET nextExecutable == getNextExecutableStep(updatedPlan)
  IN IF nextExecutable # <<>> THEN <<"Next step: " \o nextExecutable[1].id>>
     ELSE IF DoneCount(updatedPlan) = Len(updatedPlan.steps) THEN <<"Plan completed!">>
     ELSE <<"No executable steps remaining. Plan may be blocked.">>

\* stepId = NULL: no stepId given.  The try block of the real execution holds no call
\* that can throw, so success stays true and markStepBlocked is never reached.
executeStep(plan, stepId, simulate) ==
  LET found == FindStep(plan.steps, stepId)
      chosen == IF stepId # NULL
                THEN (IF found = 0 THEN <<>> ELSE <<plan.steps[found]>>)
                ELSE getNextExecutableStep(plan)
      step == chosen[1]
      marked == markStepInProgress(plan, step.id)
      done == IF simulate THEN marked ELSE markStepDone(marked.plan, step.id)
  IN IF chosen = <<>> THEN Raised(plan, chosen)
     ELSE IF ~isStepExecutable(step, plan) THEN Raised(plan, chosen)
     ELSE IF marked.raised \/ done.raised THEN Raised(plan, chosen)
     ELSE [raised |-> FALSE, step |-> chosen, marked |-> marked.plan,
           updatedPlan |-> done.plan, success |-> TRUE,
           nextSteps |-> NextStepsOf(done.plan)]

\* ------------------------------------------------------------------ plan-task
TaskKind == {"bugfix", "feature", "refactor", "other"}

\* goals a caller gives, and the keyword lists of inferTaskKind each of them contains
Goals ==
  {"fix login crash", "add export button", "improve cache layer", "document the api",
   "add a fix for export"}
BugfixGoals == {"fix login crash", "add a fix for export"}
FeatureGoals == {"add export button", "add a fix for export"}
RefactorGoals == {"improve cache layer"}

inferTaskKind(goal) ==
  IF goal \in BugfixGoals THEN "bugfix"
  ELSE IF goal \in FeatureGoals THEN "feature"
  ELSE IF goal \in RefactorGoals THEN "refactor"
  ELSE "other"

\* `${planId}-${prefix}-${order}`
generateComponentId(planId, prefix, order) ==
  planId \o "-" \o prefix \o "-" \o ToString(order)

getStepLevel(stepKind, phaseLevel) ==
  CASE stepKind = "clarify_goal" -> Abstract
    [] stepKind \in {"edit_code", "run_tests"} -> Execution
    [] stepKind \in {"gather_context", "scan_code", "design_solution"} -> Planning
    [] OTHER -> phaseLevel

GeneratedPhaseNames(taskKind) ==
  CASE taskKind = "bugfix" -> <<"Localize Bug", "Fix Bug", "Validate Fix">>
    [] taskKind = "feature" ->
         <<"Understand Requirements", "Implement Feature", "Validate Feature">>
    [] taskKind = "refactor" -> <<"Analyze Current Design", "Design Target", "Apply Refactor">>
    [] OTHER -> <<"Plan", "Execute", "Validate">>

generatePhases(taskKind, planId) ==
  [i \in 1..3 |->
     [id |-> generateComponentId(planId, "phase", i),
      name |-> GeneratedPhaseNames(taskKind)[i],
      level |-> <<Abstract, Planning, Execution>>[i],
      order |-> i]]

generateBaseScopes(goal, planId) ==
  <<[id |-> generateComponentId(planId, "scope", 1), kind |-> "global",
     label |-> "Workspace", selector |-> "workspace root"],
    [id |-> generateComponentId(planId, "scope", 2), kind |-> "module",
     label |-> "Target Module", selector |-> "module related to: " \o goal],
    [id |-> generateComponentId(planId, "scope", 3), kind |-> "module",
     label |-> "Tests/QA", selector |-> "test files and QA related to the goal"]>>

\* scopes.find(...)?.id || null
IdOrNull(found) == IF found = <<>> THEN NULL ELSE found[1].id

\* the two steps of a phase: their kinds, the scope of each, and whether the first one
\* depends on the last step of the previous phases
GeneratedStep(id, phase, order, kind, scopeId, dependencies) ==
  [id |-> id, phaseId |-> phase.id, level |-> getStepLevel(kind, phase.level),
   order |-> order, kind |-> kind, scopeId |-> scopeId, dependencies |-> dependencies,
   obj |-> 0]

generateStepsForPhase(phase, taskKind, scopes, planId, previousStepIds) ==
  LET workspaceScope == IdOrNull(SelectSeq(scopes, LAMBDA s : s.kind = "global"))
      targetScope ==
        IdOrNull(SelectSeq(scopes, LAMBDA s : s.kind = "module" /\ s.label = "Target Module"))
      testScope == IdOrNull(SelectSeq(scopes, LAMBDA s : s.label = "Tests/QA"))
      \* steps.length + 1, with steps the list of this phase only
      step1Id == generateComponentId(planId, "step", 0 + 1)
      step2Id == generateComponentId(planId, "step", 1 + 1)
      lastPrevious ==
        IF previousStepIds = <<>> THEN <<>> ELSE <<previousStepIds[Len(previousStepIds)]>>
  IN CASE phase.level = Abstract ->
            <<GeneratedStep(step1Id, phase, 1, "clarify_goal", workspaceScope, <<>>),
              GeneratedStep(step2Id, phase, 2, "gather_context", targetScope, <<step1Id>>)>>
       [] phase.level = Planning ->
            <<GeneratedStep(step1Id, phase, 1, "scan_code", targetScope, lastPrevious),
              GeneratedStep(step2Id, phase, 2, "design_solution", targetScope, <<step1Id>>)>>
       [] phase.level = Execution ->
            <<GeneratedStep(step1Id, phase, 1, "edit_code", targetScope, lastPrevious),
              GeneratedStep(step2Id, phase, 2, "run_tests", testScope, <<step1Id>>)>>
       [] OTHER -> <<>>

\* the loop of buildTaskPlan over the first n phases: allSteps (previousStepIds holds
\* the ids of allSteps)
RECURSIVE StepsOfPhases(_, _, _, _, _, _)
StepsOfPhases(phases, n, taskKind, scopes, planId, maxSteps) ==
  IF n = 0 THEN <<>>
  ELSE LET allSteps == StepsOfPhases(phases, n - 1, taskKind, scopes, planId, maxSteps)
           previousStepIds == [i \in DOMAIN allSteps |-> allSteps[i].id]
           phaseSteps == generateStepsForPhase(phases[n], taskKind, scopes, planId,
                                               previousStepIds)
           limitedSteps == IF IsSet(maxSteps)
                           THEN SubSeq(phaseSteps, 1, Min(maxSteps, Len(phaseSteps)))
                           ELSE phaseSteps
       IN allSteps \o limitedSteps

\* args: goal, taskKind (NULL if absent), maxPhases and maxSteps (0 if absent); planId
\* is what generatePlanId("plan") returned.  [raised, plan]: raised when
\* validateTaskPlan rejects the plan.
buildTaskPlan(args, planId) ==
  LET taskKind == IF args.taskKind # NULL THEN args.taskKind ELSE inferTaskKind(args.goal)
      maxPhases == IF IsSet(args.maxPhases) THEN args.maxPhases ELSE 3
      generated == generatePhases(taskKind, planId)
      phases == IF Len(generated) > maxPhases THEN SubSeq(generated, 1, maxPhases)
                ELSE generated
      scopes == generateBaseScopes(args.goal, planId)
      allSteps == StepsOfPhases(phases, Len(phases), taskKind, scopes, planId, args.maxSteps)
      built == [goal |-> args.goal, taskKind |-> taskKind, phases |-> phases,
                scopes |-> scopes, steps |-> allSteps]
  IN IF taskPlanSchemaOk(built) THEN [raised |-> FALSE, plan |-> ParsedCopy(built)]
     ELSE [raised |-> TRUE, plan |-> built]

\* ----------------------------------------------------------- chunking-helpers
\* The lines of code of the model, and what the patterns of detectLogicalBlocks and
\* findCommentBoundaries find in each.
PlainLine == "total += 1;"
OpenLine == "if (ready) {"
CloseLine == "}"
CommentLine == "// next part"
ElseLine == "} else {"
BareIfLine == "if (done) return;"
OneLineBlock == "if (a) { b(); }}"
NestedOpenLine == "if (a) { for (const x of xs) {"
DoubleCloseLine == "}}"

\* the type of the first of blockPatterns that matches the line, NULL if none does
BlockPatternType(line) ==
  CASE line \in {OpenLine, BareIfLine, OneLineBlock, NestedOpenLine} -> "if"
    [] line = ElseLine -> "else"
    [] OTHER -> NULL

\* openBraces - closeBraces
NetBraces(line) ==
  CASE line = OpenLine -> 1
    [] line = NestedOpenLine -> 2
    [] line \in {CloseLine, OneLineBlock} -> 0 - 1
    [] line = DoubleCloseLine -> 0 - 2
    [] OTHER -> 0

\* line.startsWith("//") || line.startsWith("#") || includes("/*") || includes("*/")
IsComment(line) == line = CommentLine

NoBlocks == [stack |-> <<>>, currentDepth |-> 0, blocks |-> <<>>]

\* mutant: the end of a block leaves currentDepth as it is
ScanLineWithoutDecrement(st, line, lineNum) ==
  LET type == BlockPatternType(line)
      started ==
        IF type # NULL
        THEN [st EXCEPT !.stack = Append(@, [type |-> type, startLine |-> lineNum,
                                             depth |-> st.currentDepth]),
                        !.currentDepth = @ + 1]
        ELSE st
      block == started.stack[Len(started.stack)]
  IN IF NetBraces(line) < 0 /\ Len(started.stack) > 0
     THEN [stack |-> SubSeq(started.stack, 1, Len(started.stack) - 1),
           currentDepth |-> started.currentDepth,
           blocks |-> Append(started.blocks,
                             [type |-> block.type, startLine |-> block.startLine,
                              endLine |-> lineNum, depth |-> block.depth])]
     ELSE started

\* the body of the for loop of detectLogicalBlocks for one line; st = [stack,
\* currentDepth, blocks]
ScanLine(st, line, lineNum) ==
  LET type == BlockPatternType(line)
      started ==
        IF type # NULL
        THEN [st EXCEPT !.stack = Append(@, [type |-> type, startLine |-> lineNum,
                                             depth |-> st.currentDepth]),
                        !.currentDepth = @ + 1]
        ELSE st
      block == started.stack[Len(started.stack)]
  IN IF NetBraces(line) < 0 /\ Len(started.stack) > 0
     THEN [stack |-> SubSeq(started.stack, 1, Len(started.stack) - 1),
           currentDepth |-> IF started.currentDepth - 1 > 0 THEN started.currentDepth - 1
                            ELSE 0,
           blocks |-> Append(started.blocks,
                             [type |-> block.type, startLine |-> block.startLine,
                              endLine |-> lineNum, depth |-> block.depth])]
     ELSE started

\* the scan of the first n lines
RECURSIVE ScanLines(_, _, _)
ScanLines(lines, startLine, n) ==
  IF n = 0 THEN NoBlocks
  ELSE ScanLine(ScanLines(lines, startLine, n - 1), lines[n], startLine + n - 1)

\* code is the sequence of its lines (code.split("\n"))
detectLogicalBlocks(code, startLine) == ScanLines(code, startLine, Len(code)).blocks

\* the set of the line numbers findCommentBoundaries returns
findCommentBoundaries(code, startLine) ==
  {startLine + i - 1 : i \in {k \in DOMAIN code : IsComment(code[k])}}

\* -------------------------------------------------------- code-chunking-impl
\* DEFAULT_LARGE_SYMBOL_OPTIONS.maxLinesPerChunk
DefaultLargeSymbolLines == 100

\* Array.from(allBoundaries).sort((a, b) => a - b)
RECURSIVE SortAscending(_)
SortAscending(S) ==
  IF S = {} THEN <<>>
  ELSE LET m == CHOOSE x \in S : \A y \in S : x <= y
       IN <<m>> \o SortAscending(S \ {m})

\* a sub-chunk: a chunk with, of its metadata, parentSymbolName as well
SubChunk(chunkIndex, filePath, symbolName, startLine, endLine) ==
  [id |-> "sub-symbol-" \o ToString(chunkIndex), filePath |-> filePath,
   startLine |-> startLine, endLine |-> endLine, type |-> "sub_symbol",
   lineCount |-> endLine - startLine + 1, mergedFrom |-> <<>>,
   parentSymbolName |-> symbolName]

\* mutant: a sub-chunk ends one line later (currentStart + maxLinesPerChunk)
RECURSIVE SplitSpanLong(_, _, _, _, _, _)
SplitSpanLong(currentStart, chunkEnd, maxLinesPerChunk, chunkIndex, filePath, symbolName) ==
  IF currentStart > chunkEnd THEN <<>>
  ELSE LET currentEnd == Min(currentStart + maxLinesPerChunk, chunkEnd)
       IN <<SubChunk(chunkIndex, filePath, symbolName, currentStart, currentEnd)>>
          \o SplitSpanLong(currentEnd + 1, chunkEnd, maxLinesPerChunk, chunkIndex + 1,
                           filePath, symbolName)

\* the while loop of lines 94-122: the sub-chunks of at most maxLinesPerChunk lines
RECURSIVE SplitSpan(_, _, _, _, _, _)
SplitSpan(currentStart, chunkEnd, maxLinesPerChunk, chunkIndex, filePath, symbolName) ==
  IF currentStart > chunkEnd THEN <<>>
  ELSE LET currentEnd == Min(currentStart + maxLinesPerChunk - 1, chunkEnd)
       IN <<SubChunk(chunkIndex, filePath, symbolName, currentStart, currentEnd)>>
          \o SplitSpan(currentEnd + 1, chunkEnd, maxLinesPerChunk, chunkIndex + 1,
                       filePath, symbolName)

\* the for loop over the pairs of neighbouring boundaries, from pair i on (1-based);
\* the chunks pushed so far number chunkIndex
RECURSIVE ChunksBetween(_, _, _, _, _, _)
ChunksBetween(sortedBoundaries, i, maxLinesPerChunk, chunkIndex, filePath, symbolName) ==
  IF i > Len(sortedBoundaries) - 1 THEN <<>>
  ELSE
    LET chunkStart == sortedBoundaries[i]
        chunkEnd == sortedBoundaries[i + 1]
        chunkLineCount == chunkEnd - chunkStart + 1
        pushed ==
          IF chunkLineCount < 5 /\ i < Len(sortedBoundaries) - 1 THEN <<>>
          ELSE IF chunkLineCount > maxLinesPerChunk
            THEN SplitSpan(chunkStart, chunkEnd, maxLinesPerChunk, chunkIndex, filePath,
                           symbolName)
          ELSE <<SubChunk(chunkIndex, filePath, symbolName, chunkStart, chunkEnd)>>
    IN pushed \o ChunksBetween(sortedBoundaries, i + 1, maxLinesPerChunk,
                               chunkIndex + Len(pushed), filePath, symbolName)

\* options.maxLinesPerChunk >= 1 when present
chunkLargeSymbol(filePath, symbolName, startLine, endLine, code, options) ==
  LET maxLinesPerChunk ==
        IF "maxLinesPerChunk" \in DOMAIN options THEN options.maxLinesPerChunk
        ELSE DefaultLargeSymbolLines
      blocks == detectLogicalBlocks(code, startLine)
      allBoundaries ==
        {startLine}
          \cup {blocks[b].startLine : b \in DOMAIN blocks}
          \cup {blocks[b].endLine : b \in DOMAIN blocks}
          \cup findCommentBoundaries(code, startLine)
          \cup {endLine}
  IN ChunksBetween(SortAscending(allBoundaries), 1, maxLinesPerChunk, 0, filePath,
                   symbolName)

\* ------------------------------------------------------------------- state
VARIABLES
  pc,            \* "start" before a call; after it, the name of what has returned
  plan,          \* the caller's plan object, as it is now
  options,       \* [targetMaxPhases, targetMaxSteps, maxMicroStepsPerPhase]
  call,          \* the value of the caller's plan when the function was called
  result,        \* what the call returned (with validatePlan's intermediate results)
  again,         \* what validatePlanLevels returned for the plan of result
  chunks,        \* the chunk list handed to applyDechunking
  range,         \* [startLine, endLine] handed to chunkByFileRange
  chunkOptions,  \* the ChunkingOptions of the call
  chunkResult    \* the chunks (and warnings) the chunking call returned

vars ==
  <<pc, plan, options, call, result, again, chunks, range, chunkOptions, chunkResult>>

planVars == <<plan, options, call, result, again>>
chunkVars == <<chunks, range, chunkOptions, chunkResult>>

NoPlan == [phases |-> <<>>, scopes |-> <<>>, steps |-> <<>>]
NoResult == [plan |-> NoPlan, changes |-> <<>>]

\* ------------------------------------------------------------ input plans
StepNames == <<"s1", "s2", "s3", "s4", "s5">>
PhaseNames == <<"p1", "p2", "p3", "p4", "p5">>

Limits == 0..MaxLimit

Options ==
  [targetMaxPhases : Limits, targetMaxSteps : Limits, maxMicroStepsPerPhase : Limits]

RECURSIVE SeqOfSet(_)
SeqOfSet(S) ==
  IF S = {} THEN <<>>
  ELSE LET m == CHOOSE x \in S : \A y \in S : x <= y
       IN <<m>> \o SeqOfSet(S \ {m})

\* Dependency relations on steps 1..n without a cycle: some numbering of the steps
\* makes every edge point to a lower number.
RECURSIVE Reaches(_, _, _, _)
Reaches(d, from, to, fuel) ==
  /\ fuel > 0
  /\ \/ to \in d[from]
     \/ \E k \in d[from] : Reaches(d, k, to, fuel - 1)

AcyclicDeps(n) ==
  {d \in [1..n -> SUBSET (1..n)] : \A i \in 1..n : ~Reaches(d, i, i, n)}

DepNames(S) == LET s == SeqOfSet(S) IN [i \in DOMAIN s |-> StepNames[s[i]]]

Step(i, phase, level, order, kind, scopeId, deps) ==
  [id |-> StepNames[i], phaseId |-> PhaseNames[phase], level |-> level, order |-> order,
   kind |-> kind, scopeId |-> scopeId, dependencies |-> DepNames(deps), obj |-> i]

Phases(n, level) == [i \in 1..n |-> [id |-> PhaseNames[i], level |-> level[i]]]

GlobalScope == [id |-> "g", kind |-> "global"]
OtherGlobal == [id |-> "g2", kind |-> "global"]
FileScope == [id |-> "f", kind |-> "file"]

\* Plans that differ in phase, order and dependencies: execution steps on the global scope.
DependencyPlan(np, n, ph, ord, d) ==
  [phases |-> Phases(np, [i \in 1..np |-> Abstract]),
   scopes |-> <<GlobalScope>>,
   steps |-> [i \in 1..n |-> Step(i, ph[i], Execution, ord[i], "edit_code", NULL, d[i])]]

InitDependencies ==
  \E np \in 0..MaxPhases, n \in 1..MaxSteps :
    \E ph \in [1..n -> 1..MaxPhases], ord \in [1..n -> 1..MaxOrder], d \in AcyclicDeps(n) :
      /\ plan = DependencyPlan(np, n, ph, ord, d)
      /\ options \in Options

\* Plans that differ in their scopes (no, one or two global scopes) and in the scopeId
\* of their steps ("f" dangles when the plan has no file scope, "zz" always dangles).
ScopeLists ==
  {<<>>, <<GlobalScope>>, <<FileScope>>, <<FileScope, GlobalScope>>,
   <<GlobalScope, OtherGlobal>>}

ScopePlan(np, n, ph, sc, sl) ==
  [phases |-> Phases(np, [i \in 1..np |-> Abstract]),
   scopes |-> sl,
   steps |-> [i \in 1..n |-> Step(i, ph[i], Execution, i, "edit_code", sc[i], {})]]

InitScopes ==
  \E np \in 0..MaxPhases, n \in 1..MaxFew :
    \E ph \in [1..n -> 1..MaxPhases], sc \in [1..n -> {NULL, "f", "zz"}],
       sl \in ScopeLists :
      /\ plan = ScopePlan(np, n, ph, sc, sl)
      /\ options \in Options

\* Plans that differ in the kind and level of their steps and in the level of their phases.
LevelPlan(np, n, ph, lv, kd, pl) ==
  [phases |-> Phases(np, pl),
   scopes |-> <<GlobalScope>>,
   steps |-> [i \in 1..n |-> Step(i, ph[i], lv[i], i, kd[i], NULL, {})]]

InitLevels ==
  \E np \in 0..MaxFew, n \in 1..MaxFew :
    \E ph \in [1..n -> 1..MaxFew], lv \in [1..n -> PlanLevel],
       kd \in [1..n -> StepKind], pl \in [1..np -> PlanLevel] :
      /\ plan = LevelPlan(np, n, ph, lv, kd, pl)
      /\ options \in {o \in Options : o.targetMaxPhases = 0 /\ o.targetMaxSteps = 0}

NoOptions == [targetMaxPhases |-> 0, targetMaxSteps |-> 0, maxMicroStepsPerPhase |-> 0]
NoChunks == [chunks |-> <<>>, warnings |-> 0]

\* no plan call is under way
PlanIdle ==
  /\ plan = NoPlan
  /\ options = NoOptions
  /\ call = NoPlan
  /\ result = NoResult
  /\ again = NoResult

\* no chunking call is under way
ChunkIdle ==
  /\ chunks = <<>>
  /\ range = [startLine |-> 1, endLine |-> 1]
  /\ chunkOptions = <<>>
  /\ chunkResult = NoChunks

Init ==
  /\ pc = "start"
  /\ (InitDependencies \/ InitScopes \/ InitLevels)
  /\ call = plan
  /\ result = NoResult
  /\ again = NoResult
  /\ ChunkIdle

ValidatePlan ==
  /\ pc = "start"
  /\ result' = validatePlan(plan, options)
  /\ plan' = result'.input
  /\ pc' = "done"
  /\ UNCHANGED <<options, call, again, chunkVars>>

Next == ValidatePlan

Spec == Init /\ [][Next]_vars

\* ---------------------------------------- validatePlanLevels, called on its own
MaxLevelPhases == 1   \* phases of an input plan of level validation

InitLevelPlans ==
  /\ pc = "start"
  /\ \E np \in 0..MaxLevelPhases, n \in 1..MaxFew :
       \E ph \in [1..n -> 1..(MaxLevelPhases + 1)], lv \in [1..n -> PlanLevel],
          kd \in [1..n -> StepKind], pl \in [1..np -> PlanLevel] :
         plan = LevelPlan(np, n, ph, lv, kd, pl)
  /\ options = NoOptions
  /\ call = plan
  /\ result = NoResult
  /\ again = NoResult
  /\ ChunkIdle

ValidatePlanLevels ==
  /\ pc = "start"
  /\ result' = validatePlanLevels(plan)
  /\ pc' = "levels"
  /\ UNCHANGED <<plan, options, call, again, chunkVars>>

\* the caller hands the returned plan to validatePlanLevels once more
ValidatePlanLevelsAgain ==
  /\ pc = "levels"
  /\ again' = validatePlanLevels(result.plan)
  /\ pc' = "levels-again"
  /\ UNCHANGED <<plan, options, call, result, chunkVars>>

NextLevels == ValidatePlanLevels \/ ValidatePlanLevelsAgain

SpecLevels == InitLevelPlans /\ [][NextLevels]_vars

\* ------------------------------------------------------------ chunkByFileRange
MaxLine == 9            \* last line of a file range
MaxLinesPerChunk == 4   \* largest maxLinesPerChunk given

InitRange ==
  /\ pc = "start"
  /\ PlanIdle
  /\ chunks = <<>>
  /\ \E s \in 1..MaxLine, e \in 1..MaxLine :
       /\ s <= e
       /\ range = [startLine |-> s, endLine |-> e]
  /\ \/ chunkOptions = <<>>
     \/ \E m \in 1..MaxLinesPerChunk : chunkOptions = [maxLinesPerChunk |-> m]
  /\ chunkResult = NoChunks

ChunkByFileRange ==
  /\ pc = "start"
  /\ chunkResult' =
       [chunks |-> chunkByFileRange("test.ts", range.startLine, range.endLine, chunkOptions),
        warnings |-> 0]
  /\ pc' = "done"
  /\ UNCHANGED <<planVars, chunks, range, chunkOptions>>

NextRange == ChunkByFileRange

SpecRange == InitRange /\ [][NextRange]_vars

\* ------------------------------------------------------------- applyDechunking
MaxChunks == 5          \* chunks handed to applyDechunking
MaxChunkLine == 3       \* last line of an input chunk
MaxChunksPerStep == 2   \* largest maxChunksPerStep given

ChunkFiles == {"a.ts", "b.ts"}
ChunkNames == <<"c1", "c2", "c3", "c4", "c5", "c6", "c7">>
Spans == {sp \in (1..MaxChunkLine) \X (1..MaxChunkLine) : sp[1] <= sp[2]}

InitDechunk ==
  /\ pc = "start"
  /\ PlanIdle
  /\ \E n \in 0..MaxChunks :
       \E f \in [1..n -> ChunkFiles], sp \in [1..n -> Spans] :
         chunks = [i \in 1..n |->
                     Chunk(ChunkNames[i], f[i], sp[i][1], sp[i][2], "symbol",
                           sp[i][2] - sp[i][1] + 1, <<>>)]
  /\ range = [startLine |-> 1, endLine |-> 1]
  /\ \E m \in 1..MaxChunksPerStep : chunkOptions = mergeOptions([maxChunksPerStep |-> m])
  /\ chunkResult = NoChunks

ApplyDechunking ==
  /\ pc = "start"
  /\ chunkResult' = applyDechunking(chunks, chunkOptions)
  /\ pc' = "done"
  /\ UNCHANGED <<planVars, chunks, range, chunkOptions>>

NextDechunk == ApplyDechunking

SpecDechunk == InitDechunk /\ [][NextDechunk]_vars

\* ------------------------------------- batches: mergeSteps and applyDechunking
\* A list of one step is handed to mergeSteps; then a list of one-line chunks is handed
\* to applyDechunking.
InitBatch ==
  /\ pc = "start"
  /\ \E d \in {{}, {2}} :
       plan = [NoPlan EXCEPT !.steps = <<Step(1, 1, Execution, 1, "edit_code", NULL, d)>>]
  /\ options = NoOptions
  /\ call = plan
  /\ result = NoResult
  /\ again = NoResult
  /\ ChunkIdle

MergeSteps ==
  /\ pc = "start"
  /\ result' = [plan |-> [plan EXCEPT !.steps = <<mergeSteps(plan.steps)>>],
                changes |-> <<>>]
  /\ pc' = "merged"
  /\ UNCHANGED <<plan, options, call, again, chunkVars>>

ApplyDechunkingBatch ==
  /\ pc = "merged"
  /\ \E n \in 1..MaxChunks :
       \E f \in [1..n -> ChunkFiles], l \in [1..n -> 1..MaxChunkLine] :
         chunks' = [i \in 1..n |-> Chunk(ChunkNames[i], f[i], l[i], l[i], "symbol", 1, <<>>)]
  /\ \E m \in 1..MaxChunksPerStep : chunkOptions' = mergeOptions([maxChunksPerStep |-> m])
  /\ chunkResult' = applyDechunking(chunks', chunkOptions')
  /\ pc' = "done"
  /\ UNCHANGED <<planVars, range>>

NextBatch == MergeSteps \/ ApplyDechunkingBatch

SpecBatch == InitBatch /\ [][NextBatch]_vars

\* ------------------------------------------------------------ getChunksForStep
\* values of maxLinesPerChunk below, at and above the placeholder ranges
ScopeLineLimits == {20, 50, 100}

SelectedScope(kind, selector) == [id |-> "sc", kind |-> kind, selector |-> selector]
WorkspaceScope == [id |-> "g", kind |-> "global", selector |-> "workspace root"]

\* a ChunkingOptions object: 0 stands for a field that is not given
ChunkingOptions(mc, ml, ad) ==
  (IF mc = 0 THEN <<>> ELSE [maxChunksPerStep |-> mc])
  @@ (IF ml = 0 THEN <<>> ELSE [maxLinesPerChunk |-> ml])
  @@ (IF ad = 0 THEN <<>> ELSE [applyDechunking |-> (ad = 1)])

InitScope ==
  /\ pc = "start"
  /\ \E kind \in ScopeKind, selector \in Selectors, scopeId \in {NULL, "sc", "g", "zz"} :
       \E scopes \in {<<>>, <<SelectedScope(kind, selector)>>,
                       <<WorkspaceScope, SelectedScope(kind, selector)>>} :
         plan = [phases |-> Phases(1, <<Execution>>),
                 scopes |-> scopes,
                 steps |-> <<Step(1, 1, Execution, 1, "edit_code", scopeId, {})>>]
  /\ options = NoOptions
  /\ call = plan
  /\ result = NoResult
  /\ again = NoResult
  /\ chunks = <<>>
  /\ range = [startLine |-> 1, endLine |-> 1]
  /\ \E mc \in 0..MaxChunksPerStep, ml \in {0} \cup ScopeLineLimits, ad \in 0..2 :
       chunkOptions = ChunkingOptions(mc, ml, ad)
  /\ chunkResult = NoChunks

GetChunksForStep ==
  /\ pc = "start"
  /\ chunkResult' = getChunksForStep(plan.steps[1], plan, chunkOptions)
  /\ pc' = "done"
  /\ UNCHANGED <<planVars, chunks, range, chunkOptions>>

NextScope == GetChunksForStep

SpecScope == InitScope /\ [][NextScope]_vars

\* ----------------------------------------------------------------- executeStep
MaxExecSteps == 2   \* steps of a plan that is executed

\* the second phase comes first in phase order
ExecPhases ==
  <<[id |-> "p1", level |-> Execution, order |-> 1],
    [id |-> "p2", level |-> Execution, order |-> 0]>>
ExecOrders == {1, 2}
InitialStatus == {NULL, "todo", "done", "blocked"}

ExecStep(i, phase, order, status, deps, dangling) ==
  [id |-> StepNames[i], phaseId |-> PhaseNames[phase], level |-> Execution,
   order |-> order, kind |-> "edit_code", scopeId |-> NULL,
   dependencies |-> DepNames(deps) \o (IF dangling THEN <<"zz">> ELSE <<>>),
   status |-> status, obj |-> i]

\* Plans whose dependencies form no cycle; the first step may also depend on a step
\* that is not in the plan.
InitExecute ==
  /\ pc = "start"
  /\ \E n \in 1..MaxExecSteps :
       \E ph \in [1..n -> 1..2], ord \in [1..n -> ExecOrders],
          st \in [1..n -> InitialStatus], d \in AcyclicDeps(n), dangling \in BOOLEAN :
         plan = [phases |-> ExecPhases,
                 scopes |-> <<>>,
                 steps |-> [i \in 1..n |->
                              ExecStep(i, ph[i], ord[i], st[i], d[i], dangling /\ i = 1)]]
  /\ options = NoOptions
  /\ call = plan
  /\ result = NoResult
  /\ again = NoResult
  /\ ChunkIdle

\* One call of executeStep on the current plan; a call that returns leaves its
\* updatedPlan as the current plan, a call that raises leaves the plan as it was.
ExecuteStep ==
  /\ pc \in {"start", "returned", "raised"}
  /\ \E stepId \in {NULL, "zz"} \cup StepIdsOf(plan.steps), simulate \in BOOLEAN :
       LET r == executeStep(plan, stepId, simulate)
       IN /\ result' = [raised |-> r.raised, step |-> r.step, marked |-> r.marked,
                        updatedPlan |-> r.updatedPlan, success |-> r.success,
                        nextSteps |-> r.nextSteps,
                        stepId |-> stepId, simulate |-> simulate]
          /\ plan' = IF r.raised THEN plan ELSE r.updatedPlan
          /\ pc' = IF r.raised THEN "raised" ELSE "returned"
  /\ call' = plan
  /\ UNCHANGED <<options, again, chunkVars>>

NextExecute == ExecuteStep

SpecExecute == InitExecute /\ [][NextExecute]_vars

\* --------------------------------------------------------------- buildTaskPlan
\* what generatePlanId("plan") can return: the time and a random suffix
PlanIds == {"plan-1-k3x", "plan-2-q7z"}

InitBuild ==
  /\ pc = "start"
  /\ \E goal \in Goals, taskKind \in TaskKind \cup {NULL},
        maxPhases \in 0..MaxPhases, maxSteps \in Limits :
       options = [goal |-> goal, taskKind |-> taskKind, maxPhases |-> maxPhases,
                  maxSteps |-> maxSteps]
  /\ plan = NoPlan
  /\ call = NoPlan
  /\ result = NoResult
  /\ again = NoResult
  /\ ChunkIdle

BuildTaskPlan ==
  /\ pc = "start"
  /\ \E planId \in PlanIds :
       LET r == buildTaskPlan(options, planId)
       IN /\ plan' = r.plan
          /\ result' = [plan |-> r.plan, changes |-> <<>>, raised |-> r.raised]
  /\ pc' = "built"
  /\ UNCHANGED <<options, call, again, chunkVars>>

NextBuild == BuildTaskPlan

SpecBuild == InitBuild /\ [][NextBuild]_vars

\* ------------------------------------------- applyDynamicChunking, called on its own
MaxMergeSteps == 4   \* steps of a plan whose groups are merged

\* Steps of kind edit_code on the global scope, in two phases; the last step is a
\* planning step or an execution step like the others.
MergePlan(n, ph, ord, d, last) ==
  [phases |-> Phases(2, <<Execution, Execution>>),
   scopes |-> <<GlobalScope>>,
   steps |-> [i \in 1..n |->
                Step(i, ph[i], IF i = n THEN last ELSE Execution, ord[i], "edit_code",
                     "g", d[i])]]

InitChunking ==
  /\ pc = "start"
  /\ \E n \in 1..MaxMergeSteps :
       \E ph \in [1..n -> 1..2], ord \in [1..n -> 1..MaxOrder], d \in AcyclicDeps(n),
          last \in {Planning, Execution} :
         plan = MergePlan(n, ph, ord, d, last)
  /\ \E m \in Limits : options = [NoOptions EXCEPT !.maxMicroStepsPerPhase = m]
  /\ call = plan
  /\ result = NoResult
  /\ again = NoResult
  /\ ChunkIdle

\* the call as validatePlan makes it: on the plan of the scope validation
ApplyDynamicChunking ==
  /\ pc = "start"
  /\ result' = [plan |-> plan, changes |-> <<>>,
                scopeResult |-> [plan |-> plan, changes |-> <<>>],
                chunkingResult |-> applyDynamicChunking(plan, options.maxMicroStepsPerPhase)]
  /\ pc' = "done"
  /\ UNCHANGED <<plan, options, call, again, chunkVars>>

NextChunking == ApplyDynamicChunking

SpecChunking == InitChunking /\ [][NextChunking]_vars

\* ------------------------------------------------------------- chunkLargeSymbol
MaxSymbolLines == 7   \* lines of the text of a symbol

SymbolLines == {PlainLine, OpenLine, CloseLine, CommentLine}
SymbolStarts == {1, 4}
\* maxLinesPerChunk of the options, 0 for options without it
SymbolLineLimits == {0, 3, 6}

\* the text has endLine - startLine + 1 lines
InitSymbol ==
  /\ pc = "start"
  /\ \E n \in 1..MaxSymbolLines :
       \E code \in [1..n -> SymbolLines], startLine \in SymbolStarts :
         /\ range = [startLine |-> startLine, endLine |-> startLine + n - 1]
         /\ chunkResult = [code |-> code, chunks |-> <<>>, warnings |-> 0]
  /\ \E limit \in SymbolLineLimits :
       chunkOptions = IF limit = 0 THEN <<>> ELSE [maxLinesPerChunk |-> limit]
  /\ chunks = <<>>
  /\ PlanIdle

ChunkLargeSymbol ==
  /\ pc = "start"
  /\ chunks' = chunkLargeSymbol("a.ts", "processLargeData", range.startLine,
                                range.endLine, chunkResult.code, chunkOptions)
  /\ chunkResult' = [chunkResult EXCEPT !.chunks = chunks']
  /\ pc' = "done"
  /\ UNCHANGED <<plan, options, call, result, again, range, chunkOptions>>

NextSymbol == ChunkLargeSymbol

SpecSymbol == InitSymbol /\ [][NextSymbol]_vars

\* ---------------------------------------------------------- detectLogicalBlocks
MaxBlockLines == 4   \* lines of a scanned text

CodeLines ==
  {PlainLine, OpenLine, CloseLine, CommentLine, ElseLine, BareIfLine, OneLineBlock,
   NestedOpenLine, DoubleCloseLine}

\* chunkResult holds the locals of the scan: i lines are scanned
InitBlocks ==
  /\ pc = "scan"
  /\ \E n \in 0..MaxBlockLines :
       \E code \in [1..n -> CodeLines], startLine \in SymbolStarts :
         chunkResult = [code |-> code, startLine |-> startLine, i |-> 0,
                        stack |-> <<>>, currentDepth |-> 0, blocks |-> <<>>]
  /\ chunks = <<>>
  /\ range = [startLine |-> 1, endLine |-> 1]
  /\ chunkOptions = <<>>
  /\ PlanIdle

\* one pass of the for loop
ScanNextLine ==
  /\ pc = "scan"
  /\ chunkResult.i < Len(chunkResult.code)
  /\ LET st == ScanLine([stack |-> chunkResult.stack,
                         currentDepth |-> chunkResult.currentDepth,
                         blocks |-> chunkResult.blocks],
                        chunkResult.code[chunkResult.i + 1],
                        chunkResult.startLine + chunkResult.i)
     IN chunkResult' = [chunkResult EXCEPT !.i = @ + 1,
                                           !.stack = st.stack,
                                           !.currentDepth = st.currentDepth,
                                           !.blocks = st.blocks]
  /\ UNCHANGED <<pc, plan, options, call, result, again, chunks, range, chunkOptions>>

\* return blocks
ReturnBlocks ==
  /\ pc = "scan"
  /\ chunkResult.i = Len(chunkResult.code)
  /\ pc' = "scanned"
  /\ UNCHANGED <<plan, options, call, result, again, chunkVars>>

NextBlocks == ScanNextLine \/ ReturnBlocks

SpecBlocks == InitBlocks /\ [][NextBlocks]_vars

\* ------------------------------------------------------- a plan run to its end
MaxRunSteps == 3   \* steps of a plan that is run

\* Valid plans: distinct ids, acyclic dependencies on steps of the plan, every step
\* todo or without status.
InitRun ==
  /\ pc = "start"
  /\ \E n \in 1..MaxRunSteps :
       \E ph \in [1..n -> 1..2], ord \in [1..n -> ExecOrders],
          st \in [1..n -> {NULL, "todo"}], d \in AcyclicDeps(n) :
         plan = [phases |-> ExecPhases,
                 scopes |-> <<>>,
                 steps |-> [i \in 1..n |-> ExecStep(i, ph[i], ord[i], st[i], d[i], FALSE)]]
  /\ options = NoOptions
  /\ call = plan
  /\ result = [calls |-> 0, raised |-> FALSE, nextSteps |-> <<>>]
  /\ again = NoResult
  /\ ChunkIdle

\* executeStep(plan, undefined, false) on the updatedPlan of the call before; the run
\* ends with the first call that raises
RunNextStep ==
  /\ pc \in {"start", "returned"}
  /\ LET r == executeStep(plan, NULL, FALSE)
     IN /\ result' = [calls |-> result.calls + 1, raised |-> r.raised,
                      nextSteps |-> r.nextSteps]
        /\ plan' = IF r.raised THEN plan ELSE r.updatedPlan
        /\ pc' = IF r.raised THEN "raised" ELSE "returned"
  /\ UNCHANGED <<options, call, again, chunkVars>>

NextRun == RunNextStep

SpecRun == InitRun /\ [][NextRun]_vars

\* ------------------------------------------------------------ updateStepStatus
MaxStatusSteps == 2   \* steps of a plan whose statuses are updated

\* Plans as a caller may hand them over: any statuses, the first step may depend on a
\* step that is not in the plan, and the second step may repeat the id of the first.
InitStatus ==
  /\ pc = "start"
  /\ \E n \in 1..MaxStatusSteps :
       \E ph \in [1..n -> 1..2], st \in [1..n -> StepStatus \cup {NULL}],
          d \in AcyclicDeps(n), dangling \in BOOLEAN, repeated \in BOOLEAN :
         plan = [phases |-> ExecPhases,
                 scopes |-> <<>>,
                 steps |-> [i \in 1..n |->
                              [ExecStep(i, ph[i], i, st[i], d[i], dangling /\ i = 1)
                                 EXCEPT !.id = IF repeated THEN "s1" ELSE @]]]
  /\ options = NoOptions
  /\ call = plan
  /\ result = NoResult
  /\ again = NoResult
  /\ ChunkIdle

\* What a call leaves: the function called (fn), the plan it was given (call), that plan
\* after the call (given), the plan it returned (plan, the current plan of the next
\* call), or that it raised.
StatusCall(fn, r, stepId, status) ==
  /\ result' = [fn |-> fn, raised |-> r.raised, stepId |-> stepId, status |-> status,
                given |-> plan]
  /\ plan' = IF r.raised THEN plan ELSE r.plan
  /\ pc' = IF r.raised THEN "raised" ELSE "returned"
  /\ call' = plan
  /\ UNCHANGED <<options, again, chunkVars>>

UpdateStepStatus ==
  /\ pc \in {"start", "returned", "raised"}
  /\ \E stepId \in {"zz"} \cup StepIdsOf(plan.steps), status \in StepStatus :
       StatusCall("updateStepStatus", updateStepStatus(plan, stepId, status), stepId, status)

MarkStepInProgress ==
  /\ pc \in {"start", "returned", "raised"}
  /\ \E stepId \in {"zz"} \cup StepIdsOf(plan.steps) :
       StatusCall("markStepInProgress", markStepInProgress(plan, stepId), stepId, "in_progress")

MarkStepDone ==
  /\ pc \in {"start", "returned", "raised"}
  /\ \E stepId \in {"zz"} \cup StepIdsOf(plan.steps) :
       StatusCall("markStepDone", markStepDone(plan, stepId), stepId, "done")

MarkStepBlocked ==
  /\ pc \in {"start", "returned", "raised"}
  /\ \E stepId \in {"zz"} \cup StepIdsOf(plan.steps) :
       StatusCall("markStepBlocked", markStepBlocked(plan, stepId, "failed"), stepId, "blocked")

NextStatus ==
  \/ UpdateStepStatus
  \/ MarkStepInProgress
  \/ MarkStepDone
  \/ MarkStepBlocked

SpecStatus == InitStatus /\ [][NextStatus]_vars

\* ===================================================================== claims
Returned == result.plan
Done == pc = "done"

\* every step of steps that names phase / lies in one of phaseIds
StepsOfPhase(steps, phaseId) == SelectSeq(steps, LAMBDA s : s.phaseId = phaseId)
Ids(steps) == [i \in DOMAIN steps |-> steps[i].id]

\* The dependency relation of steps, restricted to the ids present, has no cycle:
\* no step reaches itself along dependency edges.
RECURSIVE DependsOn(_, _, _, _)
DependsOn(steps, from, to, fuel) ==
  /\ fuel > 0
  /\ \E i \in DOMAIN steps :
       /\ steps[i].id = from
       /\ \/ to \in Range(steps[i].dependencies)
          \/ \E k \in Range(steps[i].dependencies) \cap StepIdsOf(steps) :
               DependsOn(steps, k, to, fuel - 1)

Acyclic(steps) == \A id \in StepIdsOf(steps) : ~DependsOn(steps, id, id, Len(steps))

NoDangling(steps) ==
  \A i \in DOMAIN steps : Range(steps[i].dependencies) \subseteq StepIdsOf(steps)

DistinctIds(steps) == \A i, j \in DOMAIN steps : steps[i].id = steps[j].id => i = j

\* The plan invariants of an input plan that the claims on dependencies assume.
InputInvariants ==
  /\ DistinctIds(call.steps)
  /\ NoDangling(call.steps)
  /\ Acyclic(call.steps)

\* C1: for an input plan with distinct step ids and no dangling dependency, every
\* dependency id of every step of the plan validatePlan returns is the id of a step
\* of that plan, whatever the limits.
C1_NoDanglingDependency ==
  (Done /\ InputInvariants) => NoDangling(Returned.steps)

\* C2: if the dependency relation of the input plan is acyclic, the dependency
\* relation of the plan validatePlan returns is acyclic, whatever the limits.
C2_StaysAcyclic ==
  (Done /\ InputInvariants) => Acyclic(Returned.steps)

\* C3 as stated: for any input plan with at least one step, the returned plan has at
\* least one phase and at least one step.
C3_NonEmpty ==
  (Done /\ Len(call.steps) >= 1)
    => (Len(Returned.phases) >= 1 /\ Len(Returned.steps) >= 1)

\* C3 as amended: for any input plan with at least one phase and at least one step and
\* any limits, the returned plan has at least one phase and at least one step.
C3_NonEmptyGivenPhase ==
  (Done /\ Len(call.steps) >= 1 /\ Len(call.phases) >= 1)
    => (Len(Returned.phases) >= 1 /\ Len(Returned.steps) >= 1)

\* The truncation left no step and step 5 put the caller's first step back.
C3_Witness ==
  /\ Done
  /\ Len(call.phases) >= 2
  /\ Len(result.limitsResult.plan.steps) = 0
  /\ Len(Returned.steps) = 1

GlobalScopes(scopes) == {i \in DOMAIN scopes : scopes[i].kind = "global"}

\* C4: for an input plan with no or one scope of kind global, the returned plan has
\* exactly one scope of kind global, and the scopeId of every step is null or the id
\* of a scope of the returned plan.
C4_ScopeCompleteness ==
  (Done /\ Cardinality(GlobalScopes(call.scopes)) <= 1) =>
    /\ Cardinality(GlobalScopes(Returned.scopes)) = 1
    /\ \A i \in DOMAIN Returned.steps :
         \/ Returned.steps[i].scopeId = NULL
         \/ Returned.steps[i].scopeId \in ScopeIdsOf(Returned.scopes)

\* The fields of a step that neither level validation nor scope validation writes.
SameStep(a, b) ==
  /\ a.id = b.id
  /\ a.phaseId = b.phaseId
  /\ a.order = b.order
  /\ a.kind = b.kind
  /\ a.dependencies = b.dependencies

SameSteps(as, bs) ==
  /\ Len(as) = Len(bs)
  /\ \A i \in DOMAIN as : SameStep(as[i], bs[i])

KeptPhaseIds == PhaseIdsOf(SubSeq(call.phases, 1, options.targetMaxPhases))
DroppedPhaseIds == PhaseIdsOf(call.phases) \ KeptPhaseIds
InKeptPhase(s) == s.phaseId \in KeptPhaseIds
PhasesCut == IsSet(options.targetMaxPhases) /\ Len(call.phases) > options.targetMaxPhases

\* C8: when the plan has more phases than targetMaxPhases = k, the returned phases are
\* the first k input phases in order and no returned step names a dropped phase; when
\* no other limit is given and some input step lies in a kept phase, the returned steps
\* are the input steps of the kept phases, in input order.
C8_PhaseTruncation ==
  (Done /\ PhasesCut) =>
    /\ Returned.phases = SubSeq(call.phases, 1, options.targetMaxPhases)
    /\ \A i \in DOMAIN Returned.steps : Returned.steps[i].phaseId \notin DroppedPhaseIds
    /\ ( /\ ~IsSet(options.targetMaxSteps)
         /\ ~IsSet(options.maxMicroStepsPerPhase)
         /\ \E i \in DOMAIN call.steps : InKeptPhase(call.steps[i]) )
       => SameSteps(Returned.steps, SelectSeq(call.steps, InKeptPhase))

\* Two of three phases are kept, one step is dropped with its phase and one stays.
C8_Witness ==
  /\ Done
  /\ Len(call.phases) = 3
  /\ options.targetMaxPhases = 2
  /\ ~IsSet(options.targetMaxSteps)
  /\ ~IsSet(options.maxMicroStepsPerPhase)
  /\ Len(Returned.steps) = 2
  /\ Len(call.steps) = 3

\* The steps that enter the per-phase step limit: what applyDynamicChunking returned.
BeforeLimit == result.chunkingResult.plan.steps

ReturnedPhaseIds ==
  PhaseIdsOf(Returned.phases) \cup {Returned.steps[i].phaseId : i \in DOMAIN Returned.steps}

\* C9: with targetMaxSteps = m every phase of the returned plan has at most m steps,
\* and of a phase that had more than m steps when the limit was applied, the m steps
\* kept are steps of that phase with the lowest order values: no dropped step of the
\* phase has a lower order than a kept one.
C9_StepLimit ==
  (Done /\ IsSet(options.targetMaxSteps)) =>
    \A q \in ReturnedPhaseIds :
      LET kept == StepsOfPhase(Returned.steps, q)
          had == StepsOfPhase(BeforeLimit, q)
      IN /\ Len(kept) <= options.targetMaxSteps
         /\ Len(had) > options.targetMaxSteps =>
              /\ Len(kept) = options.targetMaxSteps
              /\ StepIdsOf(kept) \subseteq StepIdsOf(had)
              /\ \A i \in DOMAIN kept, j \in DOMAIN had :
                   had[j].id \notin StepIdsOf(kept) => kept[i].order <= had[j].order

\* A phase of three steps is cut to two and the steps kept are not the first two of the
\* sequence: the order values decide.
C9_Witness ==
  /\ Done
  /\ options.targetMaxSteps = 2
  /\ \E q \in ReturnedPhaseIds :
       /\ Len(StepsOfPhase(BeforeLimit, q)) = 3
       /\ Len(StepsOfPhase(Returned.steps, q)) = 2
       /\ Ids(StepsOfPhase(Returned.steps, q)) # Ids(SubSeq(StepsOfPhase(BeforeLimit, q), 1, 2))

ChunksOut == chunkResult.chunks
OneFile == \A i, j \in DOMAIN chunks : chunks[i].filePath = chunks[j].filePath

\* C5: for a list of chunks that share one filePath and maxChunksPerStep = N >= 1,
\* applyDechunking returns at most N chunks.
C5_MergeCap ==
  (pc = "done" /\ OneFile) => Len(ChunksOut) <= chunkOptions.maxChunksPerStep

\* the input chunks a summary chunk names in mergedFrom
Contributors(summary) ==
  {chunks[i] : i \in {k \in DOMAIN chunks : chunks[k].id \in Range(summary.mergedFrom)}}

\* C6: every summary chunk applyDechunking produces has a non-empty mergedFrom, starts
\* at the least startLine and ends at the greatest endLine of the chunks it names, and
\* has lineCount = endLine - startLine + 1.
C6_SummarySpan ==
  pc = "done" =>
    \A i \in DOMAIN ChunksOut :
      ChunksOut[i].type = "summary" =>
        LET s == ChunksOut[i]
        IN /\ s.mergedFrom # <<>>
           /\ \A c \in Contributors(s) : s.startLine <= c.startLine /\ c.endLine <= s.endLine
           /\ \E c \in Contributors(s) : c.startLine = s.startLine
           /\ \E c \in Contributors(s) : c.endLine = s.endLine
           /\ s.lineCount = s.endLine - s.startLine + 1

\* C7: for startLine <= endLine and maxLinesPerChunk >= 1 the chunks chunkByFileRange
\* returns are consecutive: the first starts at startLine, the last ends at endLine,
\* each next chunk starts one line after the previous one ends, every lineCount is
\* endLine - startLine + 1 of its chunk and none exceeds maxLinesPerChunk.
C7_RangeCoverage ==
  pc = "done" =>
    LET cs == ChunksOut
    IN /\ Len(cs) >= 1
       /\ cs[1].startLine = range.startLine
       /\ cs[Len(cs)].endLine = range.endLine
       /\ \A i \in 1..(Len(cs) - 1) : cs[i + 1].startLine = cs[i].endLine + 1
       /\ \A i \in DOMAIN cs :
            /\ cs[i].startLine <= cs[i].endLine
            /\ cs[i].lineCount = cs[i].endLine - cs[i].startLine + 1
            /\ cs[i].lineCount <= mergeOptions(chunkOptions).maxLinesPerChunk

\* A range is split into three or more chunks, the last one shorter than the limit.
C7_Witness ==
  /\ pc = "done"
  /\ Len(ChunksOut) >= 3
  /\ ChunksOut[Len(ChunksOut)].lineCount < mergeOptions(chunkOptions).maxLinesPerChunk
  /\ ChunksOut[1].startLine > 1

\* The level policy of the plan validator: clarification is abstract; context
\* gathering, scanning and designing are planning; editing and testing are execution;
\* a refine step has the level of its phase.
PolicyLevel(kind, phaseLevel) ==
  IF kind = "clarify_goal" THEN 0
  ELSE IF kind \in {"gather_context", "scan_code", "design_solution"} THEN 1
  ELSE IF kind \in {"edit_code", "run_tests"} THEN 2
  ELSE phaseLevel

RewrittenSteps ==
  SelectSeq(call.steps,
            LAMBDA s : \E i \in DOMAIN result.plan.steps :
                         /\ result.plan.steps[i].id = s.id
                         /\ result.plan.steps[i] # s)

\* C10: after validatePlanLevels every step whose phase exists has the level the
\* policy table gives for its kind and the level of its phase, one level_corrected
\* change is recorded per rewritten step, and validatePlanLevels applied to its own
\* output records no change and returns the same steps.
C10_LevelsIdempotent ==
  /\ pc \in {"levels", "levels-again"} =>
       /\ \A i \in DOMAIN result.plan.steps :
            LET s == result.plan.steps[i]
                ph == FindPhase(call.phases, s.phaseId)
            IN ph # 0 => s.level = PolicyLevel(s.kind, call.phases[ph].level)
       /\ Len(result.changes) = Len(RewrittenSteps)
       /\ \A i \in DOMAIN result.changes :
            /\ result.changes[i].type = "level_corrected"
            /\ result.changes[i].componentId = RewrittenSteps[i].id
  /\ pc = "levels-again" =>
       /\ again.changes = <<>>
       /\ again.plan.steps = result.plan.steps

\* Both steps of a plan were rewritten by the first pass; the second pass has run.
C10_Witness ==
  /\ pc = "levels-again"
  /\ Len(result.changes) = 2
  /\ \E i \in DOMAIN call.steps : call.steps[i].kind = "refine"

\* C11: validatePlan does not modify its input: when the call has returned, the caller's
\* plan (phases, scopes, steps and every field of every step) equals its value when
\* the call was made, for every option combination.
C11_InputUnchanged ==
  Done => plan = call

\* The structural invariants of a plan, stated on the plan itself: a phase and a step
\* exist, every step names a phase of the plan, a scope of the plan or none, and only
\* steps of the plan as dependencies.
StructurallySound(p) ==
  /\ p.phases # <<>>
  /\ p.steps # <<>>
  /\ \A i \in DOMAIN p.steps :
       LET s == p.steps[i]
       IN /\ \E j \in DOMAIN p.phases : p.phases[j].id = s.phaseId
          /\ s.scopeId # NULL => \E j \in DOMAIN p.scopes : p.scopes[j].id = s.scopeId
          /\ \A k \in DOMAIN s.dependencies :
               \E j \in DOMAIN p.steps : p.steps[j].id = s.dependencies[k]

HasValidationError ==
  \E i \in DOMAIN result.warnings : result.warnings[i].type = "validation_error"

InOfFile(f) == SelectSeq(chunks, LAMBDA c : c.filePath = f)
OutOfFile(f) == SelectSeq(ChunksOut, LAMBDA c : c.filePath = f)

\* the chunk a stable sort by startLine puts last
LastByStart(cs) ==
  cs[CHOOSE i \in DOMAIN cs :
       \A j \in DOMAIN cs :
         \/ cs[j].startLine < cs[i].startLine
         \/ cs[j].startLine = cs[i].startLine /\ j <= i]

\* C13: a batch of one is a no-op.  mergeSteps of a one-element list returns that very
\* step.  When applyDechunking merges (more chunks than maxChunksPerStep = N), a file
\* whose number of chunks leaves a rest of one when cut into batches of N has its last
\* chunk (in startLine order) returned as it was given, and with N = 1 every chunk is
\* returned as given; a chunk that is not a summary is always a chunk of the input.
C13_BatchOfOne ==
  /\ pc \in {"merged", "done"} => result.plan.steps = <<call.steps[1]>>
  /\ (pc = "done" /\ Len(chunks) > chunkOptions.maxChunksPerStep) =>
       /\ \A i \in DOMAIN ChunksOut :
            ChunksOut[i].type # "summary" => ChunksOut[i] \in Range(chunks)
       /\ \A f \in ChunkFiles :
            LET in == InOfFile(f)
                out == OutOfFile(f)
                N == chunkOptions.maxChunksPerStep
            IN /\ N = 1 => Range(out) = Range(in) /\ Len(out) = Len(in)
               /\ (N > 1 /\ Len(in) % N = 1) => out[Len(out)] = LastByStart(in)

\* One step with a dependency went through mergeSteps, and three chunks of one file
\* were cut into a batch of two and a batch of one.
C13_Witness ==
  /\ pc = "done"
  /\ call.steps[1].dependencies # <<>>
  /\ chunkOptions.maxChunksPerStep = 2
  /\ Len(chunks) = 3
  /\ Len(ChunksOut) = 2
  /\ ChunksOut[1].type = "summary"
  /\ ChunksOut[2].type = "symbol"

\* the scope of the step, where it has one
StepScope == plan.scopes[getStepScope(plan.steps[1], plan)]
HasScope == getStepScope(plan.steps[1], plan) # 0
ResolutionType == translateScopeSelector(StepScope).resolutionType

\* C14: for a step whose scope resolves to a single file (a file pattern, a symbol or a
\* symbol lookup) and options with applyDechunking = true, getChunksForStep returns at
\* most maxChunksPerStep chunks and no chunk with lineCount above maxLinesPerChunk.
C14_LimitsRespected ==
  ( /\ pc = "done"
    /\ HasScope
    /\ ResolutionType \in {"pattern", "file", "symbol", "serena_action"}
    /\ mergeOptions(chunkOptions).applyDechunking )
  => /\ Len(ChunksOut) <= mergeOptions(chunkOptions).maxChunksPerStep
     /\ \A i \in DOMAIN ChunksOut :
          ChunksOut[i].lineCount <= mergeOptions(chunkOptions).maxLinesPerChunk

\* the scope plan.steps[1].scopeId names, found without the resolver
NamedScopes == {i \in DOMAIN plan.scopes : plan.scopes[i].id = plan.steps[1].scopeId}
Unscoped == plan.steps[1].scopeId = NULL \/ NamedScopes = {}

EmptyWithWarning ==
  /\ ChunksOut = <<>>
  /\ chunkResult.stats.totalChunks = 0
  /\ chunkResult.stats.chunksMerged = 0
  /\ chunkResult.stats.totalLines = 0
  /\ chunkResult.stats.estimatedTokens = 0
  /\ chunkResult.warnings >= 1

\* C15 as stated, the type of a scope being its kind: when the step's scopeId is null,
\* names no scope of the plan, or names a scope of kind global or module, the chunk
\* list is empty, all stats are zero and there is a warning.
C15_EmptyForKind ==
  ( /\ pc = "done"
    /\ \/ Unscoped
       \/ \E i \in NamedScopes :
            /\ \A j \in NamedScopes : i <= j
            /\ plan.scopes[i].kind \in {"global", "module"} )
  => EmptyWithWarning

\* C15 as amended: when the step's scopeId is null, names no scope of the plan, or
\* names a scope whose selector translates to the resolution type global or module,
\* the chunk list is empty, all stats are zero and there is a warning.
C15_EmptyForResolution ==
  ( /\ pc = "done"
    /\ \/ Unscoped
       \/ \E i \in NamedScopes :
            /\ \A j \in NamedScopes : i <= j
            /\ translateScopeSelector(plan.scopes[i]).resolutionType \in {"global", "module"} )
  => EmptyWithWarning

\* The step names the second scope of the plan, a scope of kind symbol whose selector
\* is "module related to: ...": it translates to the resolution type module.
C15_Witness ==
  /\ pc = "done"
  /\ plan.steps[1].scopeId = "sc"
  /\ Len(plan.scopes) = 2
  /\ plan.scopes[2].kind = "symbol"
  /\ plan.scopes[2].selector = "module related to: auth"
  /\ EmptyWithWarning

\* the status a plan gives the step with this id
StatusIn(p, id) == p.steps[CHOOSE i \in DOMAIN p.steps : p.steps[i].id = id].status

\* C16: when executeStep returns normally, the executed step was in_progress after it
\* was marked and is done or blocked in updatedPlan, with simulate true and false.
C16_DoneOrBlocked ==
  pc = "returned" =>
    /\ StatusIn(result.marked, result.step[1].id) = "in_progress"
    /\ StatusIn(result.updatedPlan, result.step[1].id) \in {"done", "blocked"}

\* readiness, restated: the status is todo or unset and every dependency names a step
\* of the plan whose status is done
Ready(p, s) ==
  /\ s.status \in {NULL, "todo"}
  /\ \A k \in DOMAIN s.dependencies :
       \E i \in DOMAIN p.steps :
         p.steps[i].id = s.dependencies[k] /\ p.steps[i].status = "done"

\* the step of the plan the call was given that the call names
Targeted == {i \in DOMAIN call.steps : call.steps[i].id = result.stepId}

\* C17: in every sequence of executeStep calls, each on the updatedPlan of the previous
\* one, a step becomes in_progress only if it was ready (status todo or unset, every
\* dependency a step of the plan with status done), and a call that names a step that
\* is not ready raises and leaves no updated plan.
C17_OnlyReadyStepsStart ==
  /\ pc = "returned" =>
       /\ \A i \in DOMAIN call.steps :
            (result.marked.steps[i].status = "in_progress"
               /\ call.steps[i].status # "in_progress")
              => Ready(call, call.steps[i])
       /\ \A i \in DOMAIN call.steps :
            call.steps[i].id = result.step[1].id => Ready(call, call.steps[i])
  /\ pc \in {"returned", "raised"} =>
       \A i \in Targeted :
         ~Ready(call, call.steps[i]) => pc = "raised" /\ plan = call

\* second call of a sequence: the first call left s1 in_progress and s2 depends on it;
\* the call that names s2 raises
C17_Witness ==
  /\ pc = "raised"
  /\ result.stepId = "s2"
  /\ Len(call.steps) = 2
  /\ call.steps[1].status = "in_progress"
  /\ call.steps[2].status \in {NULL, "todo"}
  /\ call.steps[2].dependencies = <<"s1">>
  /\ plan = call

\* C18: every plan built by buildTaskPlan has pairwise distinct step ids, for every
\* task kind and every maxPhases and maxSteps.
C18_DistinctStepIds ==
  (pc = "built" /\ ~result.raised) =>
    \A i, j \in DOMAIN plan.steps : i # j => plan.steps[i].id # plan.steps[j].id

\* the plan applyDynamicChunking was given and the plan it returned, within validatePlan
ChunkingIn == result.scopeResult.plan
ChunkingOut == result.chunkingResult.plan
Chunked == pc = "done" /\ options.maxMicroStepsPerPhase > 0

\* the group of a step, restated: the execution-level steps with its phase, scope and kind
GroupOf(i) ==
  {j \in DOMAIN ChunkingIn.steps :
     /\ ChunkingIn.steps[j].level = Execution
     /\ ChunkingIn.steps[j].phaseId = ChunkingIn.steps[i].phaseId
     /\ ChunkingIn.steps[j].scopeId = ChunkingIn.steps[i].scopeId
     /\ ChunkingIn.steps[j].kind = ChunkingIn.steps[i].kind}
OverLimit(i) ==
  /\ ChunkingIn.steps[i].level = Execution
  /\ Cardinality(GroupOf(i)) > options.maxMicroStepsPerPhase
GroupIds(G) == {ChunkingIn.steps[j].id : j \in G}
GroupMinOrder(G) ==
  CHOOSE m \in {ChunkingIn.steps[j].order : j \in G} :
    \A j \in G : m <= ChunkingIn.steps[j].order
Survivors(G) == {k \in DOMAIN ChunkingOut.steps : ChunkingOut.steps[k].id \in GroupIds(G)}
NoRepeat(xs) == \A a, b \in DOMAIN xs : a # b => xs[a] # xs[b]

SurvivorHasLowestId(G, k) ==
  \E j \in G : /\ ChunkingIn.steps[j].id = ChunkingOut.steps[k].id
               /\ ChunkingIn.steps[j].order = GroupMinOrder(G)
SurvivorHasMinOrder(G, k) == ChunkingOut.steps[k].order = GroupMinOrder(G)
SurvivorHasUnionDeps(G, k) ==
  /\ Range(ChunkingOut.steps[k].dependencies)
       = UNION {Range(ChunkingIn.steps[j].dependencies) : j \in G} \ GroupIds(G)
  /\ NoRepeat(ChunkingOut.steps[k].dependencies)

\* the steps a merge absorbs: the members of an over-limit group but its first listed
Absorbed ==
  {j \in DOMAIN ChunkingIn.steps : OverLimit(j) /\ \E h \in GroupOf(j) : h < j}
AbsorbedIds == {ChunkingIn.steps[j].id : j \in Absorbed}
\* the id of the step that survives the merge of the step with this id
SurvivorOf(id) ==
  LET j == CHOOSE x \in Absorbed : ChunkingIn.steps[x].id = id
      first == CHOOSE h \in GroupOf(j) : \A x \in GroupOf(j) : h <= x
  IN ChunkingIn.steps[first].id
Redirected(id) == IF id \in AbsorbedIds THEN SurvivorOf(id) ELSE id

SurvivorHasRedirectedUnionDeps(G, k) ==
  /\ Range(ChunkingOut.steps[k].dependencies)
       = {Redirected(id) : id \in UNION {Range(ChunkingIn.steps[j].dependencies) : j \in G}}
           \ GroupIds(G)
  /\ NoRepeat(ChunkingOut.steps[k].dependencies)

\* C19: when applyDynamicChunking merges an over-limit group, the surviving step has
\* the id of the lowest-order step of the group, the minimum order of the group, and
\* as dependencies the deduplicated union of the group's dependencies without the ids
\* of the group's members.
C19_SurvivorOfMerge ==
  Chunked =>
    \A i \in DOMAIN ChunkingIn.steps :
      OverLimit(i) =>
        /\ Cardinality(Survivors(GroupOf(i))) = 1
        /\ \A k \in Survivors(GroupOf(i)) :
             /\ SurvivorHasLowestId(GroupOf(i), k)
             /\ SurvivorHasMinOrder(GroupOf(i), k)
             /\ SurvivorHasUnionDeps(GroupOf(i), k)

SurvivorHasFirstId(G, k) ==
  \E j \in G : /\ ChunkingIn.steps[j].id = ChunkingOut.steps[k].id
               /\ \A h \in G : j <= h

\* C19 (amended): when applyDynamicChunking merges an over-limit group, the surviving
\* step has the id of the group's first step in the order of the plan's step list, the
\* minimum order of the group, and as dependencies the deduplicated union of the
\* group's dependencies without the ids of the group's members, an id of a step
\* absorbed by another merge being replaced by the id of that merge's surviving step.
C19_SurvivorIsFirstListed ==
  Chunked =>
    \A i \in DOMAIN ChunkingIn.steps :
      OverLimit(i) =>
        /\ Cardinality(Survivors(GroupOf(i))) = 1
        /\ \A k \in Survivors(GroupOf(i)) :
             /\ SurvivorHasFirstId(GroupOf(i), k)
             /\ SurvivorHasMinOrder(GroupOf(i), k)
             /\ SurvivorHasRedirectedUnionDeps(GroupOf(i), k)

\* two merged groups: the first listed step of the second group, s3, has not the
\* lowest order of its group and depends on s2, which the first merge absorbs into s1
C19_Witness ==
  /\ Chunked
  /\ Len(ChunkingIn.steps) = 4
  /\ GroupOf(1) = {1, 2} /\ OverLimit(1)
  /\ GroupOf(3) = {3, 4} /\ OverLimit(3)
  /\ ChunkingIn.steps[3].order > ChunkingIn.steps[4].order
  /\ ChunkingIn.steps[3].dependencies = <<"s2">>
  /\ ChunkingIn.steps[4].dependencies = <<"s3">>
  /\ Len(ChunkingOut.steps) = 2
  /\ ChunkingOut.steps[2].id = "s3"
  /\ ChunkingOut.steps[2].order = ChunkingIn.steps[4].order
  /\ ChunkingOut.steps[2].dependencies = <<"s1">>

RemainingInput == {j \in DOMAIN ChunkingIn.steps : ChunkingIn.steps[j].id \notin AbsorbedIds}

\* C20: after applyDynamicChunking with a limit on a plan with distinct step ids, no
\* remaining step depends on an absorbed step or on itself or lists a dependency
\* twice, every remaining step that depended on an absorbed step depends on the
\* surviving step of that merge (unless it is that step), and the absorbed steps are
\* not in the output.
C20_DependenciesRedirected ==
  (Chunked /\ DistinctIds(ChunkingIn.steps)) =>
    /\ \A k \in DOMAIN ChunkingOut.steps :
         LET s == ChunkingOut.steps[k]
         IN /\ Range(s.dependencies) \cap AbsorbedIds = {}
            /\ s.id \notin Range(s.dependencies)
            /\ NoRepeat(s.dependencies)
            /\ s.id \notin AbsorbedIds
    /\ \A j \in RemainingInput :
         \E k \in DOMAIN ChunkingOut.steps :
           /\ ChunkingOut.steps[k].id = ChunkingIn.steps[j].id
           /\ \A a \in Range(ChunkingIn.steps[j].dependencies) \cap AbsorbedIds :
                \/ SurvivorOf(a) = ChunkingOut.steps[k].id
                \/ SurvivorOf(a) \in Range(ChunkingOut.steps[k].dependencies)

\* s1 absorbs s2; s3, a step of the other phase, depended on both and now depends on
\* s1 once
C20_Witness ==
  /\ Chunked
  /\ Len(ChunkingIn.steps) = 3
  /\ GroupOf(1) = {1, 2} /\ OverLimit(1)
  /\ ChunkingIn.steps[3].dependencies = <<"s1", "s2">>
  /\ Len(ChunkingOut.steps) = 2
  /\ ChunkingOut.steps[1].id = "s1"
  /\ ChunkingOut.steps[2].id = "s3"
  /\ ChunkingOut.steps[2].dependencies = <<"s1">>

\* the field values of steps, whatever objects hold them
Values(steps) == [i \in DOMAIN steps |-> [steps[i] EXCEPT !.obj = 0]]

\* C21: when a limit is supplied and no group of execution-level steps exceeds it,
\* applyDynamicChunking returns the same steps with the same field values in the same
\* sequence order and records no change; steps below the execution level are never
\* merged or removed (each is in the output with its fields, its dependencies apart).
C21_UnmergedPassThrough ==
  Chunked =>
    /\ (\A i \in DOMAIN ChunkingIn.steps : ~OverLimit(i)) =>
         /\ Values(ChunkingOut.steps) = Values(ChunkingIn.steps)
         /\ result.chunkingResult.changes = <<>>
    /\ \A j \in DOMAIN ChunkingIn.steps :
         ChunkingIn.steps[j].level # Execution =>
           \E k \in DOMAIN ChunkingOut.steps :
             [Values(ChunkingOut.steps)[k] EXCEPT !.dependencies = <<>>]
               = [Values(ChunkingIn.steps)[j] EXCEPT !.dependencies = <<>>]

\* the truncation of validatePlan left no step
TruncatedToNone == Len(result.limitsResult.plan.steps) = 0
StepsPreserved == SelectSeq(result.warnings, LAMBDA w : w.type = "steps_preserved")

\* C22: whenever truncation in validatePlan leaves zero steps for an input with at
\* least one step, the returned plan has exactly one step, the first step of the input
\* plan with its phaseId set to a phase of the returned plan, and the warnings hold
\* exactly one steps_preserved entry, which names that step; when truncation leaves a
\* step, there is no steps_preserved warning.
C22_FirstStepPreserved ==
  (Done /\ Len(call.steps) >= 1) =>
    IF TruncatedToNone
    THEN /\ Len(Returned.steps) = 1
         /\ [Values(Returned.steps)[1] EXCEPT !.phaseId = NULL]
              = [Values(call.steps)[1] EXCEPT !.phaseId = NULL]
         /\ Returned.steps[1].phaseId \in PhaseIdsOf(Returned.phases)
         /\ Len(StepsPreserved) = 1
         /\ StepsPreserved[1].componentId = call.steps[1].id
    ELSE StepsPreserved = <<>>

\* the phase truncation dropped the phase of every step; the first step is back, moved
\* to the first phase that is left
C22_Witness ==
  /\ Done
  /\ Len(call.steps) >= 2
  /\ TruncatedToNone
  /\ call.steps[1].phaseId \in PhaseIdsOf(call.phases)
  /\ call.steps[1].phaseId \notin PhaseIdsOf(Returned.phases)
  /\ Len(Returned.steps) = 1
  /\ Returned.steps[1].id = call.steps[1].id
  /\ Returned.steps[1].phaseId = Returned.phases[1].id
  /\ Len(StepsPreserved) = 1

\* C23: for every symbol with endLine > startLine whose text has endLine - startLine + 1
\* lines, chunkLargeSymbol returns at least one chunk, and every chunk it returns is a
\* SubSymbol chunk with the symbol's name as parentSymbolName, startLine <= endLine
\* within the symbol's lines, lineCount = endLine - startLine + 1 and lineCount at most
\* maxLinesPerChunk.
C23_SubChunksWellFormed ==
  (pc = "done" /\ range.endLine > range.startLine) =>
    /\ Len(chunks) >= 1
    /\ \A i \in DOMAIN chunks :
         /\ chunks[i].type = "sub_symbol"
         /\ chunks[i].parentSymbolName = "processLargeData"
         /\ range.startLine <= chunks[i].startLine
         /\ chunks[i].startLine <= chunks[i].endLine
         /\ chunks[i].endLine <= range.endLine
         /\ chunks[i].lineCount = chunks[i].endLine - chunks[i].startLine + 1
         /\ chunks[i].lineCount
              <= (IF chunkOptions = <<>> THEN DefaultLargeSymbolLines
                  ELSE chunkOptions.maxLinesPerChunk)

\* a span between two boundaries that is longer than the limit is split in two
C23_Witness ==
  /\ pc = "done"
  /\ range.startLine = 4 /\ range.endLine = 10
  /\ chunkOptions # <<>> /\ chunkOptions.maxLinesPerChunk = 3
  /\ chunkResult.code[6] = CommentLine
  /\ Len(chunks) >= 3
  /\ chunks[1].startLine = 4 /\ chunks[1].endLine = 6
  /\ chunks[2].startLine = 7 /\ chunks[2].endLine = 9

Span(c) == c.startLine..c.endLine

\* C28: the sub-chunks chunkLargeSymbol returns partition the symbol: their line spans
\* are pairwise disjoint and their union is exactly startLine..endLine, for every set of
\* block and comment boundaries.
C28_SubChunksPartition ==
  (pc = "done" /\ range.endLine > range.startLine) =>
    /\ \A i, j \in DOMAIN chunks : i # j => Span(chunks[i]) \cap Span(chunks[j]) = {}
    /\ UNION {Span(chunks[i]) : i \in DOMAIN chunks} = range.startLine..range.endLine

\* the locals of the scan of detectLogicalBlocks
Scan == chunkResult
ScannedLines == Scan.startLine..(Scan.startLine + Scan.i - 1)

ScanInvariant ==
  /\ Scan.currentDepth = Len(Scan.stack)
  /\ Scan.currentDepth >= 0
  /\ \A k \in DOMAIN Scan.stack : Scan.stack[k].depth = k - 1
  /\ \A b \in DOMAIN Scan.blocks :
       /\ Scan.blocks[b].startLine <= Scan.blocks[b].endLine
       /\ Scan.blocks[b].startLine \in ScannedLines
       /\ Scan.blocks[b].endLine \in ScannedLines

\* what one line does: the blocks pushed number those open and emitted after it less
\* those before it
ScanStep ==
  LET pushed == (Len(Scan.stack') + Len(Scan.blocks')) - (Len(Scan.stack) + Len(Scan.blocks))
      emitted == Len(Scan.blocks') - Len(Scan.blocks)
  IN /\ pushed \in {0, 1}
     /\ emitted \in {0, 1}
     /\ emitted = 1 => Scan.blocks'[Len(Scan.blocks')].depth = Len(Scan.stack')

\* C30: in detectLogicalBlocks, for every text and starting line, the depth counter
\* always equals the number of open blocks and is never negative, every emitted block
\* has startLine <= endLine within the scanned lines and a depth equal to the number
\* of blocks open when it was pushed, and a line pushes at most one block and emits at
\* most one block.
C30_DepthCountsOpenBlocks == []ScanInvariant /\ [][ScanStep]_vars

\* a block nested in another has been emitted with depth 1 while the outer one is open
C30_Witness ==
  /\ pc = "scan"
  /\ Scan.i = 3
  /\ Len(Scan.stack) = 1
  /\ Scan.currentDepth = 1
  /\ Len(Scan.blocks) = 1
  /\ Scan.blocks[1].depth = 1
  /\ Scan.blocks[1].startLine = Scan.startLine + 1
  /\ Scan.blocks[1].endLine = Scan.startLine + 2

Dechunked == chunkResult.chunks
PassedThrough(id) == {k \in DOMAIN Dechunked : Dechunked[k].type # "summary" /\ Dechunked[k].id = id}
SummariesOf(id) ==
  {k \in DOMAIN Dechunked :
     Dechunked[k].type = "summary" /\ id \in Range(Dechunked[k].mergedFrom)}
\* the input chunks a summary names
MergedInto(k) == {i \in DOMAIN chunks : chunks[i].id \in Range(Dechunked[k].mergedFrom)}

\* C24: applyDechunking drops no chunk: for an input list with distinct ids, each input
\* chunk id occurs exactly once in the output, as the id of a chunk passed through or
\* in the mergedFrom of exactly one Summary chunk, and the mergedFrom of a Summary
\* names only chunks of the Summary's filePath that are neighbours in startLine order.
C24_NoChunkDropped ==
  (pc = "done" /\ NoRepeat([i \in DOMAIN chunks |-> chunks[i].id])) =>
    /\ \A i \in DOMAIN chunks :
         /\ Cardinality(PassedThrough(chunks[i].id))
              + Cardinality(SummariesOf(chunks[i].id)) = 1
         /\ \A k \in PassedThrough(chunks[i].id) : Dechunked[k] = chunks[i]
    /\ \A k \in DOMAIN Dechunked :
         Dechunked[k].type = "summary" =>
           /\ NoRepeat(Dechunked[k].mergedFrom)
           /\ Range(Dechunked[k].mergedFrom) \subseteq {chunks[i].id : i \in DOMAIN chunks}
           /\ \A i \in MergedInto(k) : chunks[i].filePath = Dechunked[k].filePath
           /\ \A c \in DOMAIN chunks :
                (c \notin MergedInto(k) /\ chunks[c].filePath = Dechunked[k].filePath) =>
                  ~ \E a, b \in MergedInto(k) :
                      /\ chunks[a].startLine < chunks[c].startLine
                      /\ chunks[c].startLine < chunks[b].startLine

\* five chunks of two files, at most two a step: one file gives a summary of two and a
\* chunk passed through, the other a summary of two
C24_Witness ==
  /\ pc = "done"
  /\ Len(chunks) = 5
  /\ chunkOptions.maxChunksPerStep = 2
  /\ Cardinality({i \in DOMAIN chunks : chunks[i].filePath = "a.ts"}) = 3
  /\ Len(Dechunked) = 3
  /\ Cardinality({k \in DOMAIN Dechunked : Dechunked[k].type = "summary"}) = 2
  /\ \E i \in DOMAIN chunks : PassedThrough(chunks[i].id) # {}

AllDone == \A i \in DOMAIN plan.steps : plan.steps[i].status = "done"

\* C25: on a plan with distinct step ids, no dangling dependency, acyclic dependencies
\* and all steps todo, calling executeStep without stepId and with simulate = false on
\* the updatedPlan of the call before always finds an executable step until the plan
\* is complete, marks one more step done with every call, and after as many calls as
\* there are steps all steps are done and nextSteps reports the plan as completed.
\* (result.calls counts the calls: no call raises before the plan is complete, after
\* every call that returned the steps done number the calls, and a step is executable
\* as long as the calls are fewer than the steps.)
C25_RunCompletes ==
  /\ pc = "raised" => (AllDone /\ result.calls = Len(plan.steps) + 1)
  /\ pc = "returned" =>
       /\ result.calls <= Len(plan.steps)
       /\ DoneCount(plan) = result.calls
       /\ \A i \in DOMAIN plan.steps : plan.steps[i].status \in {NULL, "todo", "done"}
       /\ IF result.calls = Len(plan.steps)
          THEN AllDone /\ result.nextSteps = <<"Plan completed!">>
          ELSE /\ \E i \in DOMAIN plan.steps : Ready(plan, plan.steps[i])
               /\ result.nextSteps
                    \notin {<<"Plan completed!">>,
                            <<"No executable steps remaining. Plan may be blocked.">>}
  /\ pc = "start" => \E i \in DOMAIN plan.steps : Ready(plan, plan.steps[i])

\* the third call completes a plan of three steps whose first listed step depends on
\* the last one
C25_Witness ==
  /\ pc = "returned"
  /\ Len(plan.steps) = 3
  /\ "s3" \in Range(plan.steps[1].dependencies)
  /\ result.calls = 3
  /\ AllDone
  /\ result.nextSteps = <<"Plan completed!">>

\* the order of the phase a step belongs to
PhaseOrderOf(p, s) ==
  (CHOOSE ph \in Range(p.phases) : ph.id = s.phaseId).order

\* step a comes strictly before step b: an earlier phase, or the same phase order and a
\* lower step order
StrictlyBefore(p, a, b) ==
  \/ PhaseOrderOf(p, a) < PhaseOrderOf(p, b)
  \/ PhaseOrderOf(p, a) = PhaseOrderOf(p, b) /\ a.order < b.order

ReadySteps(p) == {i \in DOMAIN p.steps : Ready(p, p.steps[i])}

NextIsMinimalReady(p) ==
  LET next == getNextExecutableStep(p)
  IN /\ (next = <<>>) <=> (ReadySteps(p) = {})
     /\ next # <<>> =>
          \E i \in ReadySteps(p) :
            /\ p.steps[i] = next[1]
            /\ \A j \in ReadySteps(p) : ~StrictlyBefore(p, p.steps[j], p.steps[i])

\* C26: getNextExecutableStep returns null exactly when no step of the plan is
\* executable, and otherwise an executable step such that no executable step belongs to
\* an earlier phase or to the same phase with a lower order; checked on the plan every
\* call of executeStep is given and on the plan it leaves.
C26_NextIsMinimalReady ==
  /\ NextIsMinimalReady(plan)
  /\ NextIsMinimalReady(call)
  /\ (pc = "returned" /\ result.stepId = NULL) =>
       result.step = getNextExecutableStep(call)

\* both steps are ready, the first listed belongs to the later phase, and the call
\* without stepId chose the second
C26_Witness ==
  /\ pc = "returned"
  /\ result.stepId = NULL
  /\ Len(call.steps) = 2
  /\ ReadySteps(call) = {1, 2}
  /\ call.steps[1].phaseId = "p1"
  /\ call.steps[2].phaseId = "p2"
  /\ result.step[1].id = "s2"

\* no step is ready although one is not done, and null is returned
C26_WitnessNull ==
  /\ pc = "raised"
  /\ ReadySteps(plan) = {}
  /\ getNextExecutableStep(plan) = <<>>

\* the steps of the plan the call was given that have the id the call names
Named == {i \in DOMAIN call.steps : call.steps[i].id = result.stepId}

\* the step as a value: its fields without the identity of the object
Fields(s) == [s EXCEPT !.obj = 0]

\* in the returned plan the steps in S have the new status and nothing else differs from
\* the plan the call was given, which is as it was
OnlyStatusOf(S) ==
  /\ Len(plan.steps) = Len(call.steps)
  /\ \A i \in DOMAIN call.steps :
       IF i \in S
       THEN Fields(plan.steps[i]) = [Fields(call.steps[i]) EXCEPT !.status = result.status]
       ELSE Fields(plan.steps[i]) = Fields(call.steps[i])
  /\ plan.phases = call.phases
  /\ plan.scopes = call.scopes
  /\ result.given = call

\* C27: updateStepStatus, markStepInProgress, markStepDone and markStepBlocked return a
\* new plan in which exactly the step with the given id has the new status, every other
\* step and field, the phases and the scopes are the input's and the input is unchanged;
\* this for every status before and after; the call raises, and yields no plan, when no
\* step has the given id.
C27_OnlyNamedStepChanges ==
  pc \in {"returned", "raised"} =>
    IF Named = {}
    THEN pc = "raised" /\ plan = call
    ELSE pc = "returned" /\ OnlyStatusOf(Named)

\* the dependencies, phases and scopes of every step are in the plan
Accepted(p) ==
  \A i \in DOMAIN p.steps :
    /\ \E k \in DOMAIN p.phases : p.phases[k].id = p.steps[i].phaseId
    /\ p.steps[i].scopeId = NULL
    /\ \A k \in DOMAIN p.steps[i].dependencies :
         \E j \in DOMAIN p.steps : p.steps[j].id = p.steps[i].dependencies[k]

FirstNamed == {i \in Named : \A j \in Named : i <= j}

\* what holds instead: the call returns exactly when a step has the id and the plan has
\* no dangling reference, and then the first step with the id is the one that changed
C27_FirstNamedStepOfAcceptedPlan ==
  pc \in {"returned", "raised"} =>
    IF Named = {} \/ ~Accepted(call)
    THEN pc = "raised" /\ plan = call /\ result.given = call
    ELSE pc = "returned" /\ OnlyStatusOf(FirstNamed)

\* a done step of a plan without dangling reference is set back to todo
C27_AnyStatusFollows ==
  /\ pc = "returned"
  /\ result.fn = "updateStepStatus"
  /\ Named = {1}
  /\ call.steps[1].status = "done"
  /\ plan.steps[1].status = "todo"

\* C29: for every result of getChunksForStep, and so of chunkScope and chunkBySymbol,
\* and every options value, stats.totalChunks is the number of chunks and
\* stats.totalLines is the sum of the chunks' lineCount.
C29_StatsAgreeWithChunks ==
  pc = "done" =>
    /\ chunkResult.stats.totalChunks = Len(chunkResult.chunks)
    /\ chunkResult.stats.totalLines = SumLineCount(chunkResult.chunks)

\* the part that holds: the results that hold no file-range chunk
C29_StatsAgreeOffFileRanges ==
  (pc = "done"
     /\ \A k \in DOMAIN chunkResult.chunks : chunkResult.chunks[k].type # "file_range")
    => /\ chunkResult.stats.totalChunks = Len(chunkResult.chunks)
       /\ chunkResult.stats.totalLines = SumLineCount(chunkResult.chunks)

====
